---- MODULE Spec2Model ----
(***************************************************************************)
(* State-machine model of the crimeaai-rust simulation core.               *)
(*                                                                         *)
(*   ArchGuard  (src/src/archguard.rs)  circuit breaker around execute()   *)
(*   VoxelWorld (src/src/voxel.rs)      capacity-bounded agent population  *)
(*                                                                         *)
(* Floating-point quantities are fixed-point integers with SCALE units per *)
(* 1.0.  Time is an integer number of seconds.                             *)
(***************************************************************************)
EXTENDS Integers, Sequences, FiniteSets, TLC

(***************************************************************************)
(* Bounds of the model                                                     *)
(***************************************************************************)
\* execute() calls issued on one guard
MaxCalls == 12
\* the clock stops advancing here
MaxTime == 40
\* the clock advances by this many seconds at a time
TimeStep == 10
\* failing calls already made, one after the other, when concurrent use starts
PriorFailures == 8
\* largest capacity a VoxelWorld is created with
MaxVoxels == 2
\* spawn and update calls made on one world, together
MaxWorldOps == 5

(***************************************************************************)
(* Program constants                                                       *)
(***************************************************************************)
\* ArchGuard::new: failure_threshold: 10
failure_threshold == 10
\* ArchGuard::new: reset_timeout: Duration::from_secs(30)
reset_timeout == 30

\* Option<Instant>::None
None == -1

\* the tasks that may call execute(); a sequential run uses one of them
Callers == {"t1", "t2"}

\* what the supplied future can resolve to: Ok(_) or Err(ArchGuardError)
OpResults == {"Ok", "ExecutionFailed", "Timeout", "CircuitOpen"}

VARIABLES
    \* ---- ArchGuard fields
    circuit_open,       \* AtomicBool
    failure_count,      \* AtomicU64
    last_failure_time,  \* RwLock<Option<Instant>>: None or the second it was set
    request_counter,    \* prometheus Counter archguard_requests_total
    error_counter,      \* prometheus Counter archguard_errors_total
    latency_count,      \* number of samples observed by latency_histogram
    \* ---- environment of the guard
    now,                \* the monotonic clock (Instant::now())
    active,             \* the callers that issue execute() calls
    \* ---- one execute() future per caller
    pc,                 \* position of the caller inside execute()
    count,              \* the local `count` of the Err arm
    opres,              \* what the supplied future resolved to ("none": not yet)
    result,             \* what execute() returned ("none": not yet)
    ran,                \* how many times this call awaited the supplied future
    did_reset,          \* this call took the should_reset() = true branch
    \* ---- observers of the call history
    calls,              \* execute() calls issued so far
    streak,             \* failing calls since the last success or cooldown reset
    leading_failures    \* n such that the first n calls all ran and failed

    \* ---- VoxelWorld fields
VARIABLES
    voxels,             \* HashMap<u64, Voxel>: id -> agent
    max_voxels,         \* capacity given to VoxelWorld::new
    next_id,            \* the id the next spawn hands out
    current_tick,       \* update calls so far
    total_kaif,         \* statistics of the last update
    avg_health,
    avg_energy

VARIABLES
    \* ---- PatternDatabase fields
    patterns,           \* Vec<LightPattern>, in storage order
    max_patterns,       \* capacity given to PatternDatabase::new
    pattern_next_id,    \* PatternDatabase.next_id
    total_lookups,      \* find_similar calls so far
    \* ---- the last call made on the database, and what it returned
    pattern_call

VARIABLES
    \* ---- KaifEngine fields
    components,         \* HashMap<String, Component>: name -> component
    metrics,            \* KaifMetrics
    update_count,       \* update calls so far
    \* ---- the calls made on the engine, and the last one with what it returned
    kaif_calls,
    kaif_call

VARIABLES
    \* ---- the slice given to EvolutionEngine::evolve
    population,         \* &mut [Voxel]: agents in slice order
    evolved             \* evolve has been called on it

VARIABLES
    \* ---- NucleotidePool
    nucleotides,        \* Vec<Nucleotide>, by index
    pool_search,        \* the find_similar call on the pool and its workers
    pool_current_tick,  \* NucleotidePool.current_tick (AtomicU64)
    total_updates,      \* NucleotidePool.total_updates (AtomicU64)
    pool_job,           \* the update_all call on the pool and its workers
    integrations        \* integrate_experience_all calls so far

VARIABLES
    \* ---- RhythmDetector fields (ArchGuard.rhythm_detector)
    last_update,        \* timestamp of the last update, in seconds
    phase,              \* in PhaseUnits per 1.0
    rhythm_calls        \* update_rhythm calls so far

VARIABLES
    \* ---- one Voxel updated on its own
    agent,              \* the Voxel
    agent_calls         \* calls made on it so far

VARIABLES
    \* ---- Ecosystem fields; its pool, world and engine are the variables above
    paused,             \* Ecosystem.paused
    total_ticks,        \* Ecosystem.total_ticks
    \* ---- the update call on the Ecosystem
    eco_pc,             \* position inside update(): "idle" between calls
    eco_dt,             \* the dt the call was given, in seconds
    \* ---- observers of the call history
    eco_calls,          \* update and toggle_pause calls issued so far
    unpaused_updates    \* update calls issued while not paused

guardVars == <<circuit_open, failure_count, last_failure_time, request_counter,
               error_counter, latency_count, now, active, pc, count, opres,
               result, ran, did_reset, calls, streak, leading_failures>>

worldVars == <<voxels, max_voxels, next_id, current_tick, total_kaif, avg_health,
               avg_energy>>

patternVars == <<patterns, max_patterns, pattern_next_id, total_lookups,
                 pattern_call>>

kaifVars == <<components, metrics, update_count, kaif_calls, kaif_call>>

evolutionVars == <<population, evolved>>

\* what find_similar leaves alone in the pool
poolUpdateVars == <<pool_current_tick, total_updates, pool_job, integrations>>

poolVars == <<nucleotides, pool_search, poolUpdateVars>>

rhythmVars == <<last_update, phase, rhythm_calls>>

agentVars == <<agent, agent_calls>>

ecoVars == <<paused, total_ticks, eco_pc, eco_dt, eco_calls, unpaused_updates>>

vars == <<guardVars, worldVars, patternVars, kaifVars, evolutionVars, poolVars,
    rhythmVars, agentVars, ecoVars>>

\* what the operations of one component leave alone
notGuard == <<worldVars, patternVars, kaifVars, evolutionVars, poolVars,
    rhythmVars, agentVars, ecoVars>>
notWorld == <<guardVars, patternVars, kaifVars, evolutionVars, poolVars,
    rhythmVars, agentVars, ecoVars>>
notPatterns == <<guardVars, worldVars, kaifVars, evolutionVars, poolVars,
    rhythmVars, agentVars, ecoVars>>
notKaif == <<guardVars, worldVars, patternVars, evolutionVars, poolVars,
    rhythmVars, agentVars, ecoVars>>
notEvolution == <<guardVars, worldVars, patternVars, kaifVars, poolVars,
    rhythmVars, agentVars, ecoVars>>
notPool == <<guardVars, worldVars, patternVars, kaifVars, evolutionVars,
    rhythmVars, agentVars, ecoVars>>
notRhythm == <<guardVars, worldVars, patternVars, kaifVars, evolutionVars, poolVars,
    agentVars, ecoVars>>
notAgent == <<guardVars, worldVars, patternVars, kaifVars, evolutionVars, poolVars,
    rhythmVars, ecoVars>>
notEco == <<guardVars, patternVars, evolutionVars, rhythmVars, agentVars>>

\* no update call is in progress on the Ecosystem that owns the pool, the
\* world and the engine: update takes &mut self for its whole duration
EcoIdle == eco_pc = "idle"

(***************************************************************************)
(* ArchGuard                                                               *)
(***************************************************************************)

\* every caller is outside execute()
CallersIdle ==
    /\ pc = [c \in Callers |-> "idle"]
    /\ count = [c \in Callers |-> 0]
    /\ opres = [c \in Callers |-> "none"]
    /\ result = [c \in Callers |-> "none"]
    /\ ran = [c \in Callers |-> 0]
    /\ did_reset = [c \in Callers |-> FALSE]

\* ArchGuard::new
GuardInit ==
    /\ circuit_open = FALSE
    /\ failure_count = 0
    /\ last_failure_time = None
    /\ request_counter = 0
    /\ error_counter = 0
    /\ latency_count = 0
    /\ now = 0
    /\ calls = 0
    /\ streak = 0
    /\ leading_failures = 0
    /\ CallersIdle

\* the guard after n calls made one after the other at second 0, all of which
\* failed: what n runs of the Err arm of execute() leave behind
AfterFailures(n) ==
    /\ circuit_open = (n >= failure_threshold)
    /\ failure_count = n
    /\ last_failure_time = (IF n > 0 THEN 0 ELSE None)
    /\ request_counter = n
    /\ error_counter = n
    /\ latency_count = 0
    /\ now = 0
    /\ calls = n
    /\ streak = n
    /\ leading_failures = n

\* faulty variant: the cooldown must be strictly exceeded
should_reset_strict(last, t) ==
    IF last # None THEN t - last > reset_timeout ELSE FALSE

\* faulty variant: a single-attempt half-open budget: no trial call while one is in flight
should_reset_single(last, t) ==
    /\ last # None
    /\ t - last >= reset_timeout
    /\ \A d \in Callers : ~(did_reset[d] /\ pc[d] # "idle")

\* time.elapsed() >= self.reset_timeout, for the Option read under the lock
should_reset(last, t) ==
    IF last # None THEN t - last >= reset_timeout ELSE FALSE

\* faulty variant: the breaker trips one failure late
ThresholdExceeded(n) == n > failure_threshold

\* count >= self.failure_threshold
ThresholdReached(n) == n >= failure_threshold

\* faulty variant: every failure is wrapped as ExecutionFailed
WrapErr(e) == "ExecutionFailed"

\* the error execute() hands back for a failed future: Err(e) => ... Err(e)
PropagateErr(e) == e

\* execute(): a caller starts a call and loads circuit_open (line 83)
Begin(c) ==
    /\ pc[c] = "idle"
    /\ calls < MaxCalls
    /\ calls' = calls + 1
    /\ pc' = [pc EXCEPT ![c] = IF circuit_open THEN "should_reset" ELSE "inc_request"]
    /\ count' = [count EXCEPT ![c] = 0]
    /\ opres' = [opres EXCEPT ![c] = "none"]
    /\ result' = [result EXCEPT ![c] = "none"]
    /\ ran' = [ran EXCEPT ![c] = 0]
    /\ did_reset' = [did_reset EXCEPT ![c] = FALSE]
    /\ UNCHANGED notGuard
    /\ UNCHANGED <<circuit_open, failure_count, last_failure_time, request_counter,
                   error_counter, latency_count, now, active, streak,
                   leading_failures>>

\* should_reset().await: true -> go on to reset_circuit()
ShouldResetYes(c) ==
    /\ pc[c] = "should_reset"
    /\ should_reset(last_failure_time, now)
    /\ pc' = [pc EXCEPT ![c] = "reset_flag"]
    /\ did_reset' = [did_reset EXCEPT ![c] = TRUE]
    /\ UNCHANGED notGuard
    /\ UNCHANGED <<circuit_open, failure_count, last_failure_time, request_counter,
                   error_counter, latency_count, now, active, count, opres, result,
                   ran, calls, streak, leading_failures>>

\* should_reset().await: false -> return Err(ArchGuardError::CircuitOpen)
Reject(c) ==
    /\ pc[c] = "should_reset"
    /\ ~should_reset(last_failure_time, now)
    /\ pc' = [pc EXCEPT ![c] = "idle"]
    /\ result' = [result EXCEPT ![c] = "CircuitOpen"]
    /\ UNCHANGED notGuard
    /\ UNCHANGED <<circuit_open, failure_count, last_failure_time, request_counter,
                   error_counter, latency_count, now, active, count, opres, ran,
                   did_reset, calls, streak, leading_failures>>

\* reset_circuit(): self.circuit_open.store(false)
ResetFlag(c) ==
    /\ pc[c] = "reset_flag"
    /\ circuit_open' = FALSE
    /\ pc' = [pc EXCEPT ![c] = "reset_count"]
    /\ UNCHANGED notGuard
    /\ UNCHANGED <<failure_count, last_failure_time, request_counter, error_counter,
                   latency_count, now, active, count, opres, result, ran, did_reset,
                   calls, streak, leading_failures>>

\* reset_circuit(): self.failure_count.store(0)
ResetCount(c) ==
    /\ pc[c] = "reset_count"
    /\ failure_count' = 0
    /\ streak' = 0
    /\ pc' = [pc EXCEPT ![c] = "inc_request"]
    /\ UNCHANGED notGuard
    /\ UNCHANGED <<circuit_open, last_failure_time, request_counter, error_counter,
                   latency_count, now, active, count, opres, result, ran, did_reset,
                   calls, leading_failures>>

\* let start = Instant::now(); self.request_counter.inc()
IncRequest(c) ==
    /\ pc[c] = "inc_request"
    /\ request_counter' = request_counter + 1
    /\ pc' = [pc EXCEPT ![c] = "run"]
    /\ UNCHANGED notGuard
    /\ UNCHANGED <<circuit_open, failure_count, last_failure_time, error_counter,
                   latency_count, now, active, count, opres, result, ran, did_reset,
                   calls, streak, leading_failures>>

\* f.await: the supplied future runs to completion with some outcome
RunOp(c) ==
    /\ pc[c] = "run"
    /\ \E r \in OpResults :
         /\ opres' = [opres EXCEPT ![c] = r]
         /\ pc' = [pc EXCEPT ![c] = IF r = "Ok" THEN "ok_arm" ELSE "err_arm"]
    /\ ran' = [ran EXCEPT ![c] = @ + 1]
    /\ UNCHANGED notGuard
    /\ UNCHANGED <<circuit_open, failure_count, last_failure_time, request_counter,
                   error_counter, latency_count, now, active, count, result,
                   did_reset, calls, streak, leading_failures>>

\* faulty variant: a success leaves the failure counter alone
SuccessKeepsCount(n) == n

\* the failure count a successful call leaves behind: store(0)
SuccessCount(n) == 0

\* Ok(result): failure_count.store(0); latency_histogram.observe(..); Ok(result)
OkArm(c) ==
    /\ pc[c] = "ok_arm"
    /\ failure_count' = SuccessCount(failure_count)
    /\ latency_count' = latency_count + 1
    /\ streak' = 0
    /\ result' = [result EXCEPT ![c] = opres[c]]
    /\ pc' = [pc EXCEPT ![c] = "idle"]
    /\ UNCHANGED notGuard
    /\ UNCHANGED <<circuit_open, last_failure_time, request_counter, error_counter,
                   now, active, count, opres, ran, did_reset, calls,
                   leading_failures>>

\* Err(e): error_counter.inc(); count = failure_count.fetch_add(1) + 1
ErrCount(c) ==
    /\ pc[c] = "err_arm"
    /\ error_counter' = error_counter + 1
    /\ failure_count' = failure_count + 1
    /\ count' = [count EXCEPT ![c] = failure_count + 1]
    /\ pc' = [pc EXCEPT ![c] = "err_stamp"]
    /\ UNCHANGED notGuard
    /\ UNCHANGED <<circuit_open, last_failure_time, request_counter, latency_count,
                   now, active, opres, result, ran, did_reset, calls, streak,
                   leading_failures>>

\* *self.last_failure_time.write().await = Some(Instant::now())
ErrStamp(c) ==
    /\ pc[c] = "err_stamp"
    /\ last_failure_time' = now
    /\ pc' = [pc EXCEPT ![c] = "err_open"]
    /\ UNCHANGED notGuard
    /\ UNCHANGED <<circuit_open, failure_count, request_counter, error_counter,
                   latency_count, now, active, count, opres, result, ran, did_reset,
                   calls, streak, leading_failures>>

\* if count >= failure_threshold { circuit_open.store(true) }; Err(e)
ErrOpen(c) ==
    /\ pc[c] = "err_open"
    /\ circuit_open' = IF ThresholdReached(count[c]) THEN TRUE ELSE circuit_open
    /\ result' = [result EXCEPT ![c] = PropagateErr(opres[c])]
    /\ streak' = streak + 1
    /\ leading_failures' = IF leading_failures = calls - 1
                           THEN leading_failures + 1 ELSE leading_failures
    /\ pc' = [pc EXCEPT ![c] = "idle"]
    /\ UNCHANGED notGuard
    /\ UNCHANGED <<failure_count, last_failure_time, request_counter, error_counter,
                   latency_count, now, active, count, opres, ran, did_reset, calls>>

\* the clock moves on while the guard is in use
Advance ==
    /\ now + TimeStep <= MaxTime
    /\ now' = now + TimeStep
    /\ UNCHANGED notGuard
    /\ UNCHANGED <<circuit_open, failure_count, last_failure_time, request_counter,
                   error_counter, latency_count, active, pc, count, opres, result,
                   ran, did_reset, calls, streak, leading_failures>>

GuardStep ==
    \/ \E c \in active : Begin(c)
    \/ \E c \in active : ShouldResetYes(c)
    \/ \E c \in active : Reject(c)
    \/ \E c \in active : ResetFlag(c)
    \/ \E c \in active : ResetCount(c)
    \/ \E c \in active : IncRequest(c)
    \/ \E c \in active : RunOp(c)
    \/ \E c \in active : OkArm(c)
    \/ \E c \in active : ErrCount(c)
    \/ \E c \in active : ErrStamp(c)
    \/ \E c \in active : ErrOpen(c)
    \/ Advance


(***************************************************************************)
(* VoxelWorld                                                              *)
(*                                                                         *)
(* f32 values are fixed-point integers, SCALE units per 1.0; dt is a whole *)
(* number of seconds.  The 256-wide emotion vector is not carried: what    *)
(* compute_kaif reads from it, whether its absolute sum is below 1e-8 and  *)
(* otherwise its Shannon entropy, is an input of each agent's update,      *)
(* drawn from EmotionInputs once the agent has received a stimulus. An     *)
(* agent that never received one keeps an all-zero vector.                 *)
(***************************************************************************)

\* fixed-point units per 1.0
SCALE == 10000

\* the dt values passed to update
DtValues == {0, 1, 950}

\* entropy of the emotion vector, in bits: between 0 and log2(256) = 8
EntropyValues == {0, 8 * SCALE}

\* the all-zero emotion vector: sum < 1e-8
Quiet == [quiet |-> TRUE, entropy |-> 0, level |-> 0]

\* the emotion vector as the update sees it: quiet, or its entropy and the
\* mean magnitude (level) of the 32-component section behind one base
\* emotion: a vector peaked outside that section has entropy 0 and level 0,
\* a flat one the largest entropy and its magnitude as level
EmotionInputs ==
    {Quiet} \cup {[quiet |-> FALSE, entropy |-> e,
                   level |-> IF e = 0 THEN 0 ELSE SCALE] : e \in EntropyValues}

Abs(x) == IF x < 0 THEN -x ELSE x

\* faulty variant: no clamp
NoClamp(x) == x

\* f32::clamp(0.0, 1.0)
Clamp01(x) == IF x < 0 THEN 0 ELSE IF x > SCALE THEN SCALE ELSE x

\* Vec::with_capacity(16) and `episodes.len() >= 16`: the episodes kept
episode_capacity == 16

\* the 64-entry slices of long_term: `write_count % 4`
long_term_slices == 4

\* VoxelMemory::default; a long_term slice is one value and the number of
\* store calls that wrote it, an episode its base emotion and the number
\* of the store call that made it
MemoryDefault ==
    [long_term |-> <<0, 0, 0, 0>>, written |-> <<0, 0, 0, 0>>,
     episodes |-> << >>, write_count |-> 0]

\* Voxel::new(id): VoxelMetadata::default, VoxelEmotions::default,
\* VoxelMemory::default
NewVoxel ==
    [health |-> SCALE, energy |-> SCALE, kaif |-> 0, prev_entropy |-> 0,
     base_emotion |-> SCALE \div 2, stimulated |-> FALSE, age_ticks |-> 0,
     memory |-> MemoryDefault]

\* faulty variant: an agent of health 0 still counts as alive
is_alive_lenient(v) == v.health >= 0

\* Voxel::is_alive
is_alive(v) == v.health > 0

\* VoxelEmotions::compute_kaif: the new (kaif, prev_entropy) of agent v
compute_kaif(v, e, dt) ==
    IF e.quiet
    THEN [kaif |-> 0, prev_entropy |-> v.prev_entropy]
    ELSE [kaif |-> IF dt > 0 THEN Abs(e.entropy - v.prev_entropy) \div dt ELSE v.kaif,
          prev_entropy |-> e.entropy]

\* Voxel::update_vitals on an agent whose kaif is k
update_vitals(v, k, dt) ==
    LET drained == v.energy - (dt * SCALE) \div 1000
        fed == IF k > (7 * SCALE) \div 10
               THEN drained + (2 * dt * k) \div 1000
               ELSE drained
        energy == Clamp01(fed)
        health == IF energy < SCALE \div 10
                  THEN v.health - (dt * SCALE) \div 1000
                  ELSE v.health + (dt * SCALE) \div 10000
    IN [energy |-> energy, health |-> Clamp01(health)]

\* faulty variant: a full episode list drops its newest entry
DropNewest(episodes) == SubSeq(episodes, 1, Len(episodes) - 1)

\* self.episodes.remove(0)
DropOldest(episodes) == Tail(episodes)

\* VoxelMemory::store(experience, importance), for an experience whose
\* entries are the agent's base emotion
store(m, emotion, importance) ==
    LET learning_rate == importance \div 10
        slice == (m.write_count % long_term_slices) + 1
        episode == [emotion |-> emotion, number |-> m.write_count]
        kept == IF Len(m.episodes) >= episode_capacity
                THEN DropOldest(m.episodes) ELSE m.episodes
    IN [long_term |-> [m.long_term EXCEPT ![slice] =
                          ((SCALE - learning_rate) * @ + learning_rate * emotion)
                              \div SCALE],
        written |-> [m.written EXCEPT ![slice] = @ + 1],
        episodes |-> Append(kept, episode),
        write_count |-> m.write_count + 1]

\* if self.emotions.kaif > 0.5
Important(kaif) == kaif > SCALE \div 2

\* Voxel::update: age, (physics, cognition,) emotion, memory, vitals
VoxelUpdate(v, e, dt) ==
    LET emo == compute_kaif(v, e, dt)
        base == (95 * v.base_emotion + 5 * e.level) \div 100
        mem == IF Important(emo.kaif) THEN store(v.memory, base, emo.kaif)
               ELSE v.memory
        vit == update_vitals(v, emo.kaif, dt)
    IN [health |-> vit.health, energy |-> vit.energy, kaif |-> emo.kaif,
        prev_entropy |-> emo.prev_entropy,
        base_emotion |-> base,
        stimulated |-> v.stimulated, age_ticks |-> v.age_ticks + 1,
        memory |-> mem]

RECURSIVE SumOver(_, _, _)
\* sum of field f of the agents in ids
SumOver(vs, ids, f) ==
    IF ids = {} THEN 0
    ELSE LET i == CHOOSE x \in ids : TRUE
         IN vs[i][f] + SumOver(vs, ids \ {i}, f)

\* VoxelWorld::new(capacity)
WorldNew(capacity) ==
    /\ voxels = << >>
    /\ max_voxels = capacity
    /\ next_id = 0
    /\ current_tick = 0
    /\ total_kaif = 0
    /\ avg_health = SCALE
    /\ avg_energy = SCALE

\* self.voxels.len() >= self.max_voxels
AtCapacity(n, cap) == n >= cap

\* VoxelWorld::get_emotion_distribution, one channel of the eight
get_emotion_distribution(vs) ==
    IF Cardinality(DOMAIN vs) < 1
    THEN SCALE \div 2
    ELSE SumOver(vs, DOMAIN vs, "base_emotion") \div Cardinality(DOMAIN vs)

\* the agents iter().min_by(health) can return: a minimal one, the first in the
\* HashMap's iteration order, which is arbitrary
MinHealthIds(vs) ==
    {i \in DOMAIN vs : \A j \in DOMAIN vs : vs[i].health <= vs[j].health}

\* the map without the keys in ids
Without(vs, ids) == [i \in DOMAIN vs \ ids |-> vs[i]]

\* let id = self.next_id
FreshId(n, vs) == n

\* VoxelWorld::spawn(position); the position does not bear on the population
Spawn ==
    /\ EcoIdle
    /\ next_id + current_tick < MaxWorldOps
    /\ \E kept \in IF AtCapacity(Cardinality(DOMAIN voxels), max_voxels)
                       /\ DOMAIN voxels # {}
                   THEN {Without(voxels, {victim}) : victim \in MinHealthIds(voxels)}
                   ELSE {voxels} :
         LET id == FreshId(next_id, kept)
         IN voxels' = [i \in DOMAIN kept \cup {id} |->
                          IF i = id THEN NewVoxel ELSE kept[i]]
    /\ next_id' = next_id + 1
    /\ UNCHANGED <<max_voxels, current_tick, total_kaif, avg_health, avg_energy>>
    /\ UNCHANGED notWorld

\* faulty variant: the dead are updated along with the living
NobodyDead(vs) == {}

\* dead_ids: the agents that are not alive
DeadIds(vs) == {i \in DOMAIN vs : ~is_alive(vs[i])}

\* the body of VoxelWorld::update(dt)
UpdateVoxels(dt) ==
    /\ current_tick' = current_tick + 1
    /\ LET alive == Without(voxels, DeadIds(voxels))
           ids == DOMAIN alive
       IN \E emo \in [ids -> EmotionInputs] :
            /\ \A i \in ids : ~alive[i].stimulated => emo[i] = Quiet
            /\ voxels' = [i \in ids |-> VoxelUpdate(alive[i], emo[i], dt)]
            /\ IF Cardinality(ids) > 0
               THEN /\ total_kaif' = SumOver(voxels', ids, "kaif")
                    /\ avg_health' = SumOver(voxels', ids, "health") \div Cardinality(ids)
                    /\ avg_energy' = SumOver(voxels', ids, "energy") \div Cardinality(ids)
               ELSE UNCHANGED <<total_kaif, avg_health, avg_energy>>
    /\ UNCHANGED <<max_voxels, next_id>>

\* VoxelWorld::update(dt), called on a world of its own
Update ==
    /\ EcoIdle
    /\ next_id + current_tick < MaxWorldOps
    /\ \E dt \in DtValues : UpdateVoxels(dt)
    /\ UNCHANGED notWorld

\* Voxel::receive_stimulus(Some(visual)) on a resident agent
Stimulate ==
    /\ EcoIdle
    /\ \E i \in DOMAIN voxels :
         /\ ~voxels[i].stimulated
         /\ voxels' = [voxels EXCEPT ![i].stimulated = TRUE]
    /\ UNCHANGED <<max_voxels, next_id, current_tick, total_kaif, avg_health,
                   avg_energy>>
    /\ UNCHANGED notWorld

WorldStep == Spawn \/ Update \/ Stimulate

(***************************************************************************)
(* PatternDatabase (light_pattern.rs)                                      *)
(*                                                                         *)
(* A pattern is represented by its id, its use_count and its feature       *)
(* vector. Feature vectors are short vectors of small integers; a          *)
(* similarity is in units of 1/SCALE and a norm in thousandths.            *)
(***************************************************************************)

\* the largest capacity given to PatternDatabase::new
MaxPatterns == 2

\* add, generate_random and find_similar calls made on one database
MaxPatternOps == 4

\* the feature vectors of the patterns and of the queries
Features == {<<0, 0>>, <<1, 0>>, <<2, 0>>, <<1, 1>>}

\* the feature vectors LightPattern::random produces: albedo and roughness
\* are drawn from [0, 1), so the vector is not all-zero
RandomFeatures == Features \ {<<0, 0>>}

\* the top_k values passed to find_similar
TopKValues == 0..MaxPatterns

Min(a, b) == IF a < b THEN a ELSE b

RECURSIVE IsqrtIn(_, _, _)
\* the largest r in lo..(hi - 1) with r * r <= x
IsqrtIn(x, lo, hi) ==
    IF hi - lo <= 1
    THEN lo
    ELSE LET mid == (lo + hi) \div 2
         IN IF mid * mid <= x THEN IsqrtIn(x, mid, hi) ELSE IsqrtIn(x, lo, mid)

\* f32::sqrt of an integer, in thousandths
sqrt(x) == IsqrtIn(x * 1000 * 1000, 0, 46341)

RECURSIVE DotUpTo(_, _, _)
\* sum of a[i] * b[i] for i in 1..len
DotUpTo(a, b, len) ==
    IF len = 0 THEN 0 ELSE a[len] * b[len] + DotUpTo(a, b, len - 1)

\* cosine_similarity(a, b); a norm below 1e-8 is a norm of 0 here
cosine_similarity(a, b) ==
    LET len == Min(Len(a), Len(b))
        dot == DotUpTo(a, b, len)
        norm_a == DotUpTo(a, a, len)
        norm_b == DotUpTo(b, b, len)
        norm == sqrt(norm_a * norm_b)
    IN IF norm < 1 THEN 0 ELSE (dot * 1000 * SCALE) \div norm

\* LightPattern::feature_vector
feature_vector(p) == p.features

\* LightPattern::default / LightPattern::random with the given features
LightPattern(f) == [id |-> 0, use_count |-> 0, features |-> f]

\* no call made yet
NoCall ==
    [op |-> "new", prev |-> "new", features |-> << >>, top_k |-> 0, id |-> None,
     result |-> << >>]

\* PatternDatabase::new(capacity)
PatternNew(capacity) ==
    /\ patterns = << >>
    /\ max_patterns = capacity
    /\ pattern_next_id = 0
    /\ total_lookups = 0
    /\ pattern_call = NoCall

\* Vec::remove(i)
RemoveAt(s, i) == SubSeq(s, 1, i - 1) \o SubSeq(s, i + 1, Len(s))

\* iter().enumerate().min_by_key(use_count): the first of the minimal entries
MinUseIdx(ps) ==
    CHOOSE i \in 1..Len(ps) :
        /\ \A j \in 1..Len(ps) : ps[j].use_count >= ps[i].use_count
        /\ \A j \in 1..(i - 1) : ps[j].use_count > ps[i].use_count

\* PatternDatabase::add on the database db = (patterns, next_id) of capacity cap
add(db, cap, pattern) ==
    LET kept == IF Len(db.patterns) >= cap /\ Len(db.patterns) > 0
                THEN RemoveAt(db.patterns, MinUseIdx(db.patterns))
                ELSE db.patterns
    IN [patterns |-> Append(kept, [pattern EXCEPT !.id = db.next_id]),
        next_id |-> db.next_id + 1,
        id |-> db.next_id]

RECURSIVE AddAll(_, _, _)
\* the loop of generate_random: add each of the patterns of ps in turn
AddAll(db, cap, ps) ==
    IF ps = << >> THEN db ELSE AddAll(add(db, cap, Head(ps)), cap, Tail(ps))

RECURSIVE similarities(_, _, _)
\* the (similarity, index) pairs find_similar collects for the first n
\* patterns, in storage order
similarities(ps, query, n) ==
    IF n = 0
    THEN << >>
    ELSE Append(similarities(ps, query, n - 1),
                [score |-> cosine_similarity(query, feature_vector(ps[n])), idx |-> n])

\* faulty variant: of equally similar entries the last comes first
LastMax(s) ==
    CHOOSE m \in 1..Len(s) :
        /\ \A j \in 1..Len(s) : s[j].score <= s[m].score
        /\ \A j \in (m + 1)..Len(s) : s[j].score < s[m].score

\* the entry a stable descending sort puts first: the first of the maximal ones
FirstMax(s) ==
    CHOOSE m \in 1..Len(s) :
        /\ \A j \in 1..Len(s) : s[j].score <= s[m].score
        /\ \A j \in 1..(m - 1) : s[j].score < s[m].score

RECURSIVE sort_by(_)
\* results.sort_by(|a, b| b.0.partial_cmp(&a.0)): stable, descending
sort_by(s) ==
    IF s = << >>
    THEN << >>
    ELSE LET m == FirstMax(s) IN <<s[m]>> \o sort_by(RemoveAt(s, m))

\* faulty variant: nothing is cut off
keep_all(s, k) == s

\* Vec::truncate(k)
truncate(s, k) == SubSeq(s, 1, Min(k, Len(s)))

\* the calls made so far stay below the bound
PatternOpsLeft(n) == pattern_next_id + total_lookups + n <= MaxPatternOps

\* PatternDatabase::add(pattern)
Add ==
    /\ PatternOpsLeft(1)
    /\ \E f \in Features :
         LET db == add([patterns |-> patterns, next_id |-> pattern_next_id],
                       max_patterns, LightPattern(f))
         IN /\ patterns' = db.patterns
            /\ pattern_next_id' = db.next_id
            /\ pattern_call' = [op |-> "add", prev |-> pattern_call.op, features |-> f, top_k |-> 0,
                                id |-> db.id, result |-> << >>]
    /\ UNCHANGED <<max_patterns, total_lookups>>
    /\ UNCHANGED notPatterns

\* PatternDatabase::generate_random(count)
GenerateRandom ==
    /\ \E random_count \in 0..MaxPatterns :
         /\ PatternOpsLeft(random_count)
         /\ \E fs \in [1..random_count -> RandomFeatures] :
              LET db == AddAll([patterns |-> patterns, next_id |-> pattern_next_id],
                               max_patterns, [i \in 1..random_count |-> LightPattern(fs[i])])
              IN /\ patterns' = db.patterns
                 /\ pattern_next_id' = db.next_id
                 /\ pattern_call' = [op |-> "generate_random",
                                     prev |-> pattern_call.op, features |-> << >>,
                                     top_k |-> random_count, id |-> None,
                                     result |-> << >>]
    /\ UNCHANGED <<max_patterns, total_lookups>>
    /\ UNCHANGED notPatterns

\* PatternDatabase::find_similar(query, top_k)
FindSimilar ==
    /\ PatternOpsLeft(1)
    /\ \E query \in Features, top_k \in TopKValues :
         \E results \in {truncate(sort_by(similarities(patterns, query, Len(patterns))),
                                   top_k)} :
         LET used == {results[i].idx : i \in DOMAIN results}
         IN /\ total_lookups' = total_lookups + 1
            /\ patterns' = [i \in 1..Len(patterns) |->
                              IF i \in used
                              THEN [patterns[i] EXCEPT !.use_count = @ + 1]
                              ELSE patterns[i]]
            /\ pattern_call' =
                 [op |-> "find_similar", prev |-> pattern_call.op,
                  features |-> query, top_k |-> top_k, id |-> None,
                  result |-> [i \in DOMAIN results |->
                                [sim |-> results[i].score, idx |-> results[i].idx,
                                 id |-> patterns[results[i].idx].id]]]
    /\ UNCHANGED <<max_patterns, pattern_next_id>>
    /\ UNCHANGED notPatterns

PatternStep == Add \/ GenerateRandom \/ FindSimilar

(***************************************************************************)
(* KaifEngine (kaif.rs)                                                    *)
(*                                                                         *)
(* Component vectors are vectors of small integers whose non-zero entries  *)
(* are equal and number a power of two, so that the Shannon entropy is a   *)
(* whole number of bits. Entropy, kaif, weights and dt are in units of     *)
(* 1/SCALE.                                                                *)
(***************************************************************************)

\* register_component, update_component, inject_stimulus, compute_total_kaif
\* and update calls made on one engine
MaxKaifOps == 5

\* the names components are registered under
ComponentNames == {"memory", "emotions"}

\* the vectors given to register_component and update_component, of entropy
\* 0 (all-zero), 1 and 2 bits
ComponentVectors == {<<0, 0, 0, 0>>, <<1, 1, 0, 0>>, <<1, 1, 1, 1>>}

\* the weights given to register_component
WeightValues == {0, SCALE}

\* the dt values given to compute_total_kaif and update
KaifDtValues == {0 - SCALE \div 2, 0, SCALE \div 2}

\* KaifState::from_kaif
from_kaif(kaif) ==
    IF kaif < SCALE \div 10 THEN "Dormant"
    ELSE IF 10 * kaif < 3 * SCALE THEN "Calm"
    ELSE IF 10 * kaif < 6 * SCALE THEN "Active"
    ELSE IF 10 * kaif < 8 * SCALE THEN "Excited"
    ELSE "Ecstatic"

RECURSIVE Log2(_)
\* f32::log2 of a power of two
Log2(n) == IF n <= 1 THEN 0 ELSE 1 + Log2(n \div 2)

RECURSIVE SumSeq(_)
SumSeq(s) == IF s = << >> THEN 0 ELSE Head(s) + SumSeq(Tail(s))

\* compute_entropy(data): 0 for a vector whose sum of magnitudes is below 1e-10
compute_entropy(data) ==
    LET sum == SumSeq([i \in DOMAIN data |-> Abs(data[i])])
    IN IF sum < 1
       THEN 0
       ELSE SumSeq([i \in DOMAIN data |->
                      IF Abs(data[i]) > 0
                      THEN (Abs(data[i]) * Log2(sum \div Abs(data[i])) * SCALE) \div sum
                      ELSE 0])

\* KaifMetrics::default
KaifMetricsDefault ==
    [instant |-> 0, smoothed |-> 0, max_ever |-> 0, average |-> 0, variance |-> 0,
     state |-> "Calm", history |-> << >>]

\* KaifMetrics::update(new_kaif, smoothing); the history stays below
\* history_size within the bound on calls
KaifMetricsUpdate(m, new_kaif, smoothing) ==
    LET smoothed == ((SCALE - smoothing) * m.smoothed + smoothing * new_kaif) \div SCALE
        history == Append(m.history, new_kaif)
        average == SumSeq(history) \div Len(history)
    IN [instant |-> new_kaif,
        smoothed |-> smoothed,
        max_ever |-> IF new_kaif > m.max_ever THEN new_kaif ELSE m.max_ever,
        average |-> average,
        variance |-> SumSeq([i \in DOMAIN history |->
                               ((history[i] - average) * (history[i] - average))
                                   \div SCALE]) \div Len(history),
        state |-> from_kaif(smoothed),
        history |-> history]

\* no call made yet
NoKaifCall ==
    [op |-> "new", name |-> "", replaced |-> FALSE, dt |-> 0, returned |-> 0]

\* KaifEngine::new
KaifNew ==
    /\ components = << >>
    /\ metrics = KaifMetricsDefault
    /\ update_count = 0
    /\ kaif_calls = 0
    /\ kaif_call = NoKaifCall

\* faulty variant: previous starts empty of content
StaleComponent(initial, weight) ==
    [current |-> initial, previous |-> <<0, 0, 0, 0>>, weight |-> weight]

\* Component { current: initial.clone(), previous: initial, weight }
Component(initial, weight) ==
    [current |-> initial, previous |-> initial, weight |-> weight]

\* HashMap::insert(name, component) done by register_component
register_component(cs, name, initial, weight) ==
    [n \in DOMAIN cs \cup {name} |->
        IF n = name THEN Component(initial, weight) ELSE cs[n]]

\* what update_component(name, new_state) makes of the components: nothing
\* changes when no component has that name
update_component(cs, name, new_state) ==
    IF name \in DOMAIN cs
    THEN [cs EXCEPT ![name].previous = cs[name].current,
                    ![name].current = new_state]
    ELSE cs

\* faulty variant: only dt = 0 is rejected
DtIsZero(dt) == dt = 0

\* dt <= 0.0
DtNotPositive(dt) == dt <= 0

RECURSIVE WeightedSum(_, _, _)
\* the loop of compute_total_kaif over the components of names:
\* (total_kaif, total_weight)
WeightedSum(cs, names, dt) ==
    IF names = {}
    THEN [total_kaif |-> 0, total_weight |-> 0]
    ELSE LET n == CHOOSE x \in names : TRUE
             rest == WeightedSum(cs, names \ {n}, dt)
             d_entropy == (Abs(compute_entropy(cs[n].current)
                                - compute_entropy(cs[n].previous)) * SCALE) \div Abs(dt)
         IN [total_kaif |-> rest.total_kaif + (d_entropy * cs[n].weight) \div SCALE,
             total_weight |-> rest.total_weight + cs[n].weight]

\* KaifEngine::compute_total_kaif(dt)
compute_total_kaif(cs, dt) ==
    IF DtNotPositive(dt) \/ DOMAIN cs = {}
    THEN 0
    ELSE LET t == WeightedSum(cs, DOMAIN cs, dt)
         IN IF t.total_weight > 0
            THEN (t.total_kaif * SCALE) \div t.total_weight
            ELSE 0

\* one more call is within the bound
KaifCall ==
    /\ EcoIdle
    /\ kaif_calls < MaxKaifOps
    /\ kaif_calls' = kaif_calls + 1

\* KaifEngine::register_component(name, initial, weight)
RegisterComponent ==
    /\ KaifCall
    /\ \E name \in ComponentNames, initial \in ComponentVectors, weight \in WeightValues :
         /\ components' = register_component(components, name, initial, weight)
         /\ kaif_call' = [op |-> "register_component", name |-> name,
                          replaced |-> name \in DOMAIN components, dt |-> 0,
                          returned |-> 0]
    /\ UNCHANGED <<metrics, update_count>>
    /\ UNCHANGED notKaif

\* KaifEngine::update_component(name, new_state)
UpdateComponent ==
    /\ KaifCall
    /\ \E name \in ComponentNames, new_state \in ComponentVectors :
         /\ components' = update_component(components, name, new_state)
         /\ kaif_call' = [op |-> "update_component", name |-> name,
                          replaced |-> name \in DOMAIN components, dt |-> 0,
                          returned |-> 0]
    /\ UNCHANGED <<metrics, update_count>>
    /\ UNCHANGED notKaif

\* KaifEngine::inject_stimulus(intensity) with intensity > 0: every entry of
\* every current vector moves by a random amount
InjectStimulus ==
    /\ KaifCall
    /\ \E noisy \in [DOMAIN components -> ComponentVectors] :
         components' = [n \in DOMAIN components |->
                          [components[n] EXCEPT !.current = noisy[n]]]
    /\ kaif_call' = [op |-> "inject_stimulus", name |-> "", replaced |-> FALSE,
                     dt |-> 0, returned |-> 0]
    /\ UNCHANGED <<metrics, update_count>>
    /\ UNCHANGED notKaif

\* KaifEngine::compute_total_kaif(dt), called from outside
ComputeTotalKaif ==
    /\ KaifCall
    /\ \E dt \in KaifDtValues :
         kaif_call' = [op |-> "compute_total_kaif", name |-> "", replaced |-> FALSE,
                       dt |-> dt, returned |-> compute_total_kaif(components, dt)]
    /\ UNCHANGED <<components, metrics, update_count>>
    /\ UNCHANGED notKaif

\* KaifEngine::update(dt)
KaifUpdate ==
    /\ KaifCall
    /\ \E dt \in KaifDtValues :
         LET kaif == compute_total_kaif(components, dt)
         IN /\ update_count' = update_count + 1
            /\ metrics' = KaifMetricsUpdate(metrics, kaif, SCALE \div 10)
            /\ kaif_call' = [op |-> "update", name |-> "", replaced |-> FALSE,
                             dt |-> dt, returned |-> 0]
    /\ UNCHANGED components
    /\ UNCHANGED notKaif

KaifStep ==
    \/ RegisterComponent
    \/ UpdateComponent
    \/ InjectStimulus
    \/ ComputeTotalKaif
    \/ KaifUpdate

(***************************************************************************)
(* EvolutionEngine (evolution.rs)                                          *)
(*                                                                         *)
(* An agent is its energy and its genome; its other fitness inputs         *)
(* (resonance, perception, emotion axes) are 0. A genome is the ordered    *)
(* list of its concept tags, a tag a small integer. The random draws of    *)
(* evolve, combine and mutate are nondeterministic choices.                *)
(***************************************************************************)

\* the largest population given to evolve
MaxPopulation == 4

\* Genome.max_concepts
max_concepts == 10

\* the tag format!("mutated_{}", n) produces
MutatedTag == 9

\* the tag format!("{}_mut", tag) produces
Renamed(tag) == tag + 10

\* Genome::add_concept: append while below max_concepts
add_concept(genome, concept) ==
    IF Len(genome) < max_concepts THEN Append(genome, concept) ELSE genome

\* EvolutionEngine::fitness
fitness(v) ==
    (3 * v.energy) \div 10 + (Len(v.genome) * SCALE) \div 10 + (3 * SCALE) \div 10

\* EvolutionEngine::combine: every child the draws can produce
combine(parent1, parent2) ==
    LET all_concepts == parent1 \o parent2
        num_concepts == Min(Len(all_concepts) \div 2, max_concepts)
    IN {[i \in 1..num_concepts |-> all_concepts[pick[i]]] :
            pick \in [1..num_concepts -> 1..Len(all_concepts)]}

\* EvolutionEngine::mutate: every genome the three trials can leave
mutate(genome) ==
    LET added == {genome} \cup
                 (IF Len(genome) < max_concepts
                  THEN {add_concept(genome, MutatedTag)} ELSE {})
        removed == added \cup {RemoveAt(g, i) : <<g, i>> \in
                       {<<g, i>> \in added \X (1..max_concepts) : i <= Len(g)}}
    IN removed \cup {[g EXCEPT ![i] = Renamed(g[i])] : <<g, i>> \in
           {<<g, i>> \in removed \X (1..max_concepts) : i <= Len(g)}}

\* (voxels.len() / 2).max(1)
top_count(len) == IF len \div 2 > 1 THEN len \div 2 ELSE 1

RECURSIVE fitness_scores(_, _)
\* the (index, fitness) pairs of the first n agents, in slice order
fitness_scores(slice, n) ==
    IF n = 0
    THEN << >>
    ELSE Append(fitness_scores(slice, n - 1), [score |-> fitness(slice[n]), idx |-> n])

\* the genomes one iteration of the loop can produce from the parents at the
\* slice positions of tops
Offspring(slice, tops) ==
    UNION {mutate(g) :
             g \in {slice[p].genome : p \in tops} \cup
                   UNION {combine(slice[p1].genome, slice[p2].genome) :
                            <<p1, p2>> \in tops \X tops}}

RECURSIVE EvolveFrom(_, _, _)
\* the loop of evolve from slice position i on: every slice it can leave
EvolveFrom(slice, tops, i) ==
    IF i > Len(slice)
    THEN {slice}
    ELSE UNION {EvolveFrom([slice EXCEPT ![i].genome = g], tops, i + 1) :
                  g \in Offspring(slice, tops)}

\* EvolutionEngine::evolve(voxels)
Evolve ==
    /\ ~evolved
    /\ LET scores == sort_by(fitness_scores(population, Len(population)))
           top == top_count(Len(population))
           tops == {scores[r].idx : r \in 1..Min(top, Len(scores))}
       IN population' \in EvolveFrom(population, tops, top + 1)
    /\ evolved' = TRUE
    /\ UNCHANGED notEvolution

\* no slice: an empty population nobody evolves
EvolutionUnused == population = << >> /\ evolved = TRUE

\* a population of up to MaxPopulation agents of pairwise distinct energy, in
\* any slice order, each with a genome of one concept of its own
EvolutionNew ==
    /\ \E n \in 0..MaxPopulation : \E order \in [1..n -> 1..n] :
         /\ \A i, j \in 1..n : i # j => order[i] # order[j]
         /\ population = [i \in 1..n |->
                            [energy |-> (order[i] * SCALE) \div (MaxPopulation + 2),
                             genome |-> <<order[i]>>]]
    /\ evolved = FALSE

(***************************************************************************)
(* NucleotidePool::find_similar (nucleotide.rs)                            *)
(*                                                                         *)
(* A record is its semantic vector, here of two small integers. The        *)
(* similarities are computed by parallel workers, one record each, in any  *)
(* order; pool_search.done lists them in the order they were completed.    *)
(***************************************************************************)

\* the largest pool
MaxPool == 3

\* update_all calls made on one pool
MaxPoolTicks == 2

\* the largest pool that update_all is called on
MaxUpdatePool == 2

\* successful add_epigenetic_tag calls made on one record
MaxTagAdds == 4

\* integrate_experience_all calls made on one pool
MaxIntegrations == 3

\* EpigeneticTag: the kinds of tag used here; update_histone_state reads these two
EpigeneticTag == {"Methylation", "Acetylation"}

\* the tag slot of Nucleotide::default
TagDefault == [tag |-> "Methylation", weight |-> 0]

\* Nucleotide::default (HistoneState::default for compaction and
\* accessibility); weights, energy and histone values in SCALE units per 1.0
NucleotideDefault ==
    [semantic_vector |-> <<0, 0>>,
     epigenetic_tags |-> <<TagDefault, TagDefault, TagDefault, TagDefault>>,
     epigenetic_count |-> 0,
     compaction |-> SCALE \div 2,
     accessibility |-> SCALE \div 2,
     energy |-> SCALE,
     last_access_tick |-> 0,
     modification_count |-> 0]

\* the semantic vectors of the records
SemanticVectors == {<<0, 0>>, <<1, 0>>, <<1, 1>>}

\* the queries: shorter than, as long as and longer than a semantic vector
Queries == {<< >>, <<1>>, <<1, 1>>, <<0, 1, 1>>}

\* the record find_similar builds from the query: the first entries of the
\* query over an all-zero vector
query_nuc(query) ==
    LET len == Min(Len(query), Len(NucleotideDefault.semantic_vector))
    IN [semantic_vector |->
          [i \in DOMAIN NucleotideDefault.semantic_vector |->
              IF i <= len THEN query[i] ELSE NucleotideDefault.semantic_vector[i]]]

\* Nucleotide::similarity; a norm below 1e-6 is a norm of 0 here
similarity(nuc, other) ==
    LET size == Len(nuc.semantic_vector)
        dot == DotUpTo(nuc.semantic_vector, other.semantic_vector, size)
        norm1 == DotUpTo(nuc.semantic_vector, nuc.semantic_vector, size)
        norm2 == DotUpTo(other.semantic_vector, other.semantic_vector, size)
        norm == sqrt(norm1 * norm2)
    IN IF norm < 1 THEN 0 ELSE (dot * 1000 * SCALE) \div norm

\* faulty variant: the pairs are collected in the order they were completed
collect_as_completed(done) == done

\* par_iter().enumerate().map(..).collect(): the pairs in index order,
\* whatever the order they were completed in
collect(done) ==
    [i \in 1..Len(done) |-> CHOOSE d \in {done[j] : j \in 1..Len(done)} : d.idx = i]

\* no find_similar call made
NoSearch == [op |-> "idle", query |-> << >>, top_k |-> 0, done |-> << >>,
             returned |-> << >>]

\* no update_all call made
NoJob == [op |-> "idle", dt |-> 0, tick |-> 0, pending |-> {}, updated |-> << >>]

\* NucleotidePool::new(n) and initialize(): n records from Nucleotide::random
PoolNew ==
    /\ \E n \in 0..MaxPool :
          nucleotides \in [1..n -> {[NucleotideDefault EXCEPT !.semantic_vector = v] :
                                        v \in SemanticVectors}]
    /\ pool_search = NoSearch
    /\ pool_current_tick = 0
    /\ total_updates = 0
    /\ pool_job = NoJob
    /\ integrations = 0

\* find_similar(query, top_k) is called
PoolFindBegin ==
    /\ EcoIdle
    /\ pool_search.op = "idle"
    /\ pool_job.op # "updating"
    /\ \E query \in Queries, top_k \in 0..MaxPool :
         pool_search' = [pool_search EXCEPT !.op = "searching", !.query = query,
                                            !.top_k = top_k]
    /\ UNCHANGED <<nucleotides, poolUpdateVars>>
    /\ UNCHANGED notPool

\* a worker computes the similarity of one record not yet done
PoolSimilarity ==
    /\ pool_search.op = "searching"
    /\ \E i \in DOMAIN nucleotides \ {pool_search.done[j].idx : j \in DOMAIN pool_search.done} :
         pool_search' =
            [pool_search EXCEPT !.done =
                Append(@, [score |-> similarity(nucleotides[i], query_nuc(pool_search.query)),
                           idx |-> i])]
    /\ UNCHANGED <<nucleotides, poolUpdateVars>>
    /\ UNCHANGED notPool

\* all workers are done: collect, sort, truncate, return
PoolFindEnd ==
    /\ pool_search.op = "searching"
    /\ Len(pool_search.done) = Len(nucleotides)
    /\ pool_search' =
          [pool_search EXCEPT !.op = "returned",
              !.returned = truncate(sort_by(SubSeq(collect(pool_search.done), 1,
                                                   Len(pool_search.done))),
                                    pool_search.top_k)]
    /\ UNCHANGED <<nucleotides, poolUpdateVars>>
    /\ UNCHANGED notPool

PoolStep == PoolFindBegin \/ PoolSimilarity \/ PoolFindEnd

(***************************************************************************)
(* Nucleotide::update, add_epigenetic_tag and NucleotidePool::update_all   *)
(*                                                                         *)
(* update_all hands every record to a parallel worker; the workers run in  *)
(* any order, one record each, and update_all returns when all are done.   *)
(* The draws of the random number generator are inputs of each update.     *)
(***************************************************************************)

\* dt of an update_all call, in seconds
PoolDtValues == {0, 1}

\* the strengths given to add_epigenetic_tag: 0.01, 0.5 and 1.5
TagStrengths == {SCALE \div 100, SCALE \div 2, (3 * SCALE) \div 2}

\* rng.gen_range(0.3..1.0): the strength of a randomly added tag
RandomStrengths == {SCALE \div 2}

\* what update_epigenetic_tags draws: whether rng.gen::<f32>() < 0.001 * dt,
\* which can only happen for dt > 0, the new tag and its strength
TagDraws(dt) ==
    {[add |-> a, tag |-> t, weight |-> w] :
        a \in (IF dt > 0 THEN BOOLEAN ELSE {FALSE}),
        t \in EpigeneticTag, w \in RandomStrengths}

\* f32::max
Max(a, b) == IF a > b THEN a ELSE b

\* for j in i..3 { tags[j] = tags[j + 1] }, slots counted from 1
ShiftDown(tags, i) ==
    <<IF 1 >= i THEN tags[2] ELSE tags[1],
      IF 2 >= i THEN tags[3] ELSE tags[2],
      IF 3 >= i THEN tags[4] ELSE tags[3],
      tags[4]>>

\* tags[i].1 *= 1.0 - 0.01 * dt
Decayed(slot, dt) == [slot EXCEPT !.weight = (@ * (100 - dt)) \div 100]

\* tags[i].1 < 0.01
Expired(slot) == slot.weight < SCALE \div 100

RECURSIVE ExpiryLoop(_, _, _, _, _)
\* for i in 0..self.epigenetic_count: the range is fixed when the loop starts
\* (last); tags and cnt are the array and epigenetic_count as the loop goes
ExpiryLoop(tags, cnt, i, last, dt) ==
    IF i > last
    THEN [epigenetic_tags |-> tags, epigenetic_count |-> cnt]
    ELSE LET decayed == [tags EXCEPT ![i] = Decayed(@, dt)]
         IN IF Expired(decayed[i])
            THEN ExpiryLoop(ShiftDown(decayed, i), Max(cnt - 1, 0), i + 1, last, dt)
            ELSE ExpiryLoop(decayed, cnt, i + 1, last, dt)

\* Nucleotide::update_epigenetic_tags
update_epigenetic_tags(n, dt, draw) ==
    LET after == ExpiryLoop(n.epigenetic_tags, n.epigenetic_count, 1,
                            n.epigenetic_count, dt)
    IN IF draw.add /\ after.epigenetic_count < 4
       THEN [n EXCEPT !.epigenetic_tags =
                          [after.epigenetic_tags EXCEPT ![after.epigenetic_count + 1] =
                              [tag |-> draw.tag, weight |-> draw.weight]],
                      !.epigenetic_count = after.epigenetic_count + 1]
       ELSE [n EXCEPT !.epigenetic_tags = after.epigenetic_tags,
                      !.epigenetic_count = after.epigenetic_count]

RECURSIVE LastWeight(_, _, _)
\* the weight of the last of the first cnt tags that is of kind tag, else 0.0
LastWeight(n, tag, cnt) ==
    IF cnt = 0 THEN 0
    ELSE IF n.epigenetic_tags[cnt].tag = tag THEN n.epigenetic_tags[cnt].weight
    ELSE LastWeight(n, tag, cnt - 1)

\* Nucleotide::update_histone_state
update_histone_state(n, dt) ==
    LET methylation == LastWeight(n, "Methylation", n.epigenetic_count)
        acetylation == LastWeight(n, "Acetylation", n.epigenetic_count)
        target_compaction == SCALE \div 2 + (3 * methylation - 3 * acetylation) \div 10
        compaction == n.compaction + ((target_compaction - n.compaction) * dt) \div 10
    IN [n EXCEPT !.compaction = compaction,
                 !.accessibility = SCALE - (compaction * 8) \div 10]

\* Nucleotide::update(dt, current_tick)
nucleotide_update(n, dt, tick, draw) ==
    LET faded == [n EXCEPT !.energy = Max((@ * (1000 - dt)) \div 1000, SCALE \div 10)]
        tagged == update_epigenetic_tags(faded, dt, draw)
    IN [update_histone_state(tagged, dt) EXCEPT !.last_access_tick = tick]

\* Nucleotide::add_epigenetic_tag(tag, strength)
add_epigenetic_tag(n, tag, strength) ==
    IF n.epigenetic_count < 4
    THEN [n EXCEPT !.epigenetic_tags[n.epigenetic_count + 1] =
                       [tag |-> tag, weight |-> Min(strength, SCALE)],
                   !.epigenetic_count = @ + 1,
                   !.modification_count = @ + 1]
    ELSE n

\* faulty variant: a finished record stays in the work list
StillPending(pending, i) == pending

\* par_iter_mut: a record handed to a worker is not handed out again
Remaining(pending, i) == pending \ {i}

\* update_all(dt) is entered: tick = current_tick.fetch_add(1), then the
\* records are handed to the workers
UpdateAllCall(dt) ==
    /\ pool_job.op # "updating"
    /\ pool_search.op # "searching"
    /\ pool_current_tick' = pool_current_tick + 1
    /\ pool_job' = [op |-> "updating", dt |-> dt, tick |-> pool_current_tick,
                    pending |-> DOMAIN nucleotides, updated |-> << >>]
    /\ UNCHANGED <<nucleotides, pool_search, total_updates, integrations>>

\* update_all(dt) is called on a pool of its own
UpdateAllBegin ==
    /\ EcoIdle
    /\ pool_current_tick < MaxPoolTicks
    /\ \E dt \in PoolDtValues : UpdateAllCall(dt)
    /\ UNCHANGED notPool

\* a worker runs nuc.update(dt, tick) on one record
UpdateOne ==
    /\ pool_job.op = "updating"
    /\ \E i \in pool_job.pending : \E draw \in TagDraws(pool_job.dt) :
         /\ nucleotides' = [nucleotides EXCEPT ![i] =
                               nucleotide_update(@, pool_job.dt, pool_job.tick, draw)]
         /\ pool_job' = [pool_job EXCEPT !.pending = Remaining(@, i),
                                         !.updated = Append(@, i)]
    /\ UNCHANGED <<pool_search, pool_current_tick, total_updates, integrations>>
    /\ UNCHANGED notPool

\* faulty variant: for_each returns without waiting for its workers
JoinedNone(pending) == TRUE

\* for_each returns when every record has been processed
JoinedAll(pending) == pending = {}

\* every worker is done: total_updates.fetch_add(size), update_all returns
UpdateAllReturn ==
    /\ pool_job.op = "updating"
    /\ JoinedAll(pool_job.pending)
    /\ total_updates' = total_updates + Len(nucleotides)
    /\ pool_job' = [pool_job EXCEPT !.op = "returned"]
    /\ UNCHANGED <<nucleotides, pool_search, pool_current_tick, integrations>>

\* update_all returns to the caller that called it on a pool of its own
UpdateAllEnd ==
    /\ EcoIdle
    /\ UpdateAllReturn
    /\ UNCHANGED notPool

\* nucleotides[i].add_epigenetic_tag(tag, strength), between pool calls
AddEpigeneticTag ==
    /\ EcoIdle
    /\ pool_job.op # "updating"
    /\ pool_search.op # "searching"
    /\ \E i \in DOMAIN nucleotides, tag \in EpigeneticTag, strength \in TagStrengths :
         /\ nucleotides[i].modification_count < MaxTagAdds
         /\ nucleotides' = [nucleotides EXCEPT ![i] = add_epigenetic_tag(@, tag, strength)]
    /\ UNCHANGED <<pool_search, poolUpdateVars>>
    /\ UNCHANGED notPool

UpdateAllStep == UpdateAllBegin \/ UpdateOne \/ UpdateAllEnd

(***************************************************************************)
(* Nucleotide::integrate_experience and integrate_experience_all           *)
(*                                                                         *)
(* An entry of a semantic vector is an f32: a whole number of units, VUNIT *)
(* per 1.0, of magnitude up to F32Max, or one of PosInf, NegInf and NaN.   *)
(* A result of magnitude above F32Max is an infinity, as in IEEE 754; the  *)
(* model's F32Max stands for f32::MAX.                                     *)
(***************************************************************************)

\* units per 1.0 of a semantic vector entry
VUNIT == 100

\* the largest finite f32, in units
F32Max == 100000

\* rounding error allowed on a norm, in units
RoundingSlack == 2

PosInf == F32Max + 1
NegInf == 0 - PosInf
NaN == F32Max + 2

IsInf(x) == x = PosInf \/ x = NegInf

\* a finite result, or the infinity it overflows to
Overflow(x) == IF x > F32Max THEN PosInf ELSE IF x < 0 - F32Max THEN NegInf ELSE x

\* a + b
fadd(a, b) ==
    IF a = NaN \/ b = NaN THEN NaN
    ELSE IF IsInf(a) /\ IsInf(b) THEN (IF a = b THEN a ELSE NaN)
    ELSE IF IsInf(a) THEN a
    ELSE IF IsInf(b) THEN b
    ELSE Overflow(a + b)

\* a - b
fsub(a, b) == IF b = NaN THEN NaN ELSE fadd(a, 0 - b)

\* rate * x for a finite rate of rate_n thousandths
fscale(rate_n, x) ==
    IF x = NaN THEN NaN
    ELSE IF IsInf(x)
         THEN (IF rate_n = 0 THEN NaN ELSE IF rate_n > 0 THEN x ELSE 0 - x)
    ELSE Overflow((rate_n * x) \div 1000)

\* the largest magnitude whose square is finite
SquareLimit == IsqrtIn(F32Max * VUNIT, 0, 46341)

\* x * x
fsquare(x) ==
    IF x = NaN THEN NaN
    ELSE IF IsInf(x) \/ Abs(x) > SquareLimit THEN PosInf
    ELSE (x * x) \div VUNIT

\* f32::sqrt of a sum of squares
fsqrt(y) ==
    IF y = NaN THEN NaN
    ELSE IF y = PosInf THEN PosInf
    ELSE IsqrtIn(y * VUNIT, 0, 46341)

\* x / (norm / 10.0), for a norm the test norm > 10.0 has let through
fdiv_norm(x, norm) ==
    IF x = NaN THEN NaN
    ELSE IF norm = PosInf THEN (IF IsInf(x) THEN NaN ELSE 0)
    ELSE IF IsInf(x) THEN x
    ELSE (x * 10 * VUNIT) \div norm

RECURSIVE SumSquares(_, _)
\* iter().map(|x| x * x).sum() over the first len entries
SumSquares(v, len) ==
    IF len = 0 THEN 0 ELSE fadd(SumSquares(v, len - 1), fsquare(v[len]))

\* the L2 norm of a semantic vector
Norm(v) == fsqrt(SumSquares(v, Len(v)))

\* norm > 10.0: false for NaN
AboveTen(norm) == norm # NaN /\ norm > 10 * VUNIT

\* 0.01 * accessibility * energy * dt, in thousandths
learning_rate(n, dt) == (10 * ((n.accessibility * n.energy) \div SCALE) * dt) \div SCALE

\* Nucleotide::integrate_experience(experience, dt)
integrate_experience(n, experience, dt) ==
    LET len == Min(Len(experience), Len(n.semantic_vector))
        rate == learning_rate(n, dt)
        moved == [i \in DOMAIN n.semantic_vector |->
                     IF i <= len
                     THEN fadd(n.semantic_vector[i],
                               fscale(rate, fsub(experience[i], n.semantic_vector[i])))
                     ELSE n.semantic_vector[i]]
        norm == Norm(moved)
    IN [n EXCEPT !.semantic_vector =
            IF AboveTen(norm)
            THEN [i \in DOMAIN moved |-> fdiv_norm(moved[i], norm)]
            ELSE moved]

\* the external vectors: shorter than, as long as and longer than a semantic
\* vector; entries of 1.0, of 20.0 and of the largest finite value
ExperienceVectors == {<<VUNIT>>, <<20 * VUNIT, 20 * VUNIT>>, <<F32Max, 0, 0>>}

\* dt of an integrate_experience_all call, in seconds
IntegrateDtValues == {0 - 100, 1, 400}

\* NucleotidePool::integrate_experience_all(experience, dt): every record
\* integrates the same vector; no record reads another
IntegrateExperienceAll ==
    /\ EcoIdle
    /\ pool_job.op # "updating"
    /\ pool_search.op # "searching"
    /\ integrations < MaxIntegrations
    /\ integrations' = integrations + 1
    /\ \E experience \in ExperienceVectors, dt \in IntegrateDtValues :
         nucleotides' = [i \in DOMAIN nucleotides |->
                            integrate_experience(nucleotides[i], experience, dt)]
    /\ UNCHANGED <<pool_search, pool_current_tick, total_updates, pool_job>>
    /\ UNCHANGED notPool

(***************************************************************************)
(* One Voxel (voxel.rs) that is updated directly, tick after tick          *)
(***************************************************************************)

\* calls made on the agent
MaxAgentOps == 4

\* updates the agent has been through when the calls start
PriorTicks == 14

RECURSIVE WarmedFrom(_, _, _)
\* agent v, that has been through k - 1 updates, after updates k..n of one
\* second in which the entropy of its emotion vector swings between 8 bits
\* and 0; update k is complete (age_ticks = k) before update k + 1 starts
WarmedFrom(v, k, n) ==
    IF k > n
    THEN v
    ELSE LET e == [quiet |-> FALSE,
                   entropy |-> IF k % 2 = 1 THEN 8 * SCALE ELSE 0,
                   level |-> IF k % 2 = 1 THEN SCALE ELSE 0]
             updated == VoxelUpdate(v, e, 1)
         IN IF updated.age_ticks = k THEN WarmedFrom(updated, k + 1, n) ELSE v

\* the agent after receive_stimulus and n such updates
Warmed(n) == WarmedFrom([NewVoxel EXCEPT !.stimulated = TRUE], 1, n)

\* Voxel::new(0), or that agent PriorTicks updates later
AgentNew ==
    /\ agent \in {NewVoxel, Warmed(PriorTicks)}
    /\ agent_calls = 0

\* Voxel::receive_stimulus(Some(v))
AgentStimulus ==
    /\ agent_calls < MaxAgentOps
    /\ ~agent.stimulated
    /\ agent' = [agent EXCEPT !.stimulated = TRUE]
    /\ agent_calls' = agent_calls + 1
    /\ UNCHANGED notAgent

\* Voxel::update(dt)
AgentUpdate ==
    /\ agent_calls < MaxAgentOps
    /\ \E dt \in DtValues, e \in EmotionInputs :
         /\ ~agent.stimulated => e = Quiet
         /\ agent' = VoxelUpdate(agent, e, dt)
    /\ agent_calls' = agent_calls + 1
    /\ UNCHANGED notAgent

AgentStep == AgentStimulus \/ AgentUpdate

(***************************************************************************)
(* RhythmDetector (archguard.rs), behind ArchGuard::update_rhythm          *)
(*                                                                         *)
(* Timestamps are whole seconds; the phase is in PhaseUnits per 1.0, so    *)
(* that delta / period = delta * frequency is PhasePerSecond units a       *)
(* second.                                                                 *)
(***************************************************************************)

\* update_rhythm calls made on one guard
MaxRhythmCalls == 4

\* units of phase per 1.0
PhaseUnits == 1000

\* RhythmDetector::new(0.038): the phase advances 0.038 a second
PhasePerSecond == 38

\* the timestamps given to update_rhythm
Timestamps == {0, 5, 7, 10, 30}

\* f64 %: the remainder has the sign of the dividend
frem(x, m) == IF x >= 0 THEN x % m ELSE 0 - ((0 - x) % m)

\* RhythmDetector::new
RhythmNew ==
    /\ last_update = 0
    /\ phase = 0
    /\ rhythm_calls = 0

\* ArchGuard::update_rhythm(timestamp): RhythmDetector::update
UpdateRhythm ==
    /\ rhythm_calls < MaxRhythmCalls
    /\ rhythm_calls' = rhythm_calls + 1
    /\ \E timestamp \in Timestamps :
         /\ phase' = IF last_update > 0
                     THEN frem(phase + (timestamp - last_update) * PhasePerSecond,
                               PhaseUnits)
                     ELSE phase
         /\ last_update' = timestamp
    /\ UNCHANGED notRhythm

(***************************************************************************)
(* Ecosystem (world.rs)                                                    *)
(*                                                                         *)
(* The Ecosystem owns a NucleotidePool, a VoxelWorld and a KaifEngine:     *)
(* the variables of those components above. Its pattern database and       *)
(* concept searcher are not touched by update or toggle_pause and the      *)
(* frame-rate samples depend on the wall clock only; they are left out.    *)
(* update passes one dt, in whole seconds, to all three components.        *)
(***************************************************************************)

\* update and toggle_pause calls made on one Ecosystem
MaxEcoCalls == 4

\* update calls that find one Ecosystem not paused
MaxEcoTicks == 2

\* the nucleotide_count given to Ecosystem::new
MaxEcoPool == 1

\* the agents Ecosystem::new spawns (50 in the code)
InitialSpawns == 2

\* the dt values given to Ecosystem::update, in seconds
EcoDtValues == {0, 1}

\* .take(64): the records a sample is taken from
nucleotide_sample_size == 64

\* .take(8): the agents whose emotions are sampled
emotion_sample_size == 8

\* the ids resident after InitialSpawns spawns into a world of capacity cap:
\* every spawn at capacity evicts one agent of the lowest health, all agents
\* being of full health, and the last spawned agent is always resident
SpawnedIds(cap) ==
    {ids \in SUBSET (0..(InitialSpawns - 1)) :
        /\ InitialSpawns - 1 \in ids
        /\ Cardinality(ids) = Min(InitialSpawns, Max(cap, 1))}

\* the three register_component calls of Ecosystem::new
RegisteredComponents ==
    register_component(
        register_component(
            register_component(<< >>, "nucleotides", <<0, 0, 0, 0>>, (3 * SCALE) \div 10),
            "voxels", <<0, 0, 0, 0>>, SCALE \div 2),
        "emotions", <<0, 0, 0, 0>>, (2 * SCALE) \div 10)

\* the semantic vectors Nucleotide::random gives the records of the pool
EcoVectors == {<<1, 0>>, <<0, 1>>}

\* Ecosystem::new(nucleotide_count, max_voxels, max_patterns)
EcoNew ==
    /\ \E n \in 0..MaxEcoPool :
          nucleotides \in [1..n -> {[NucleotideDefault EXCEPT !.semantic_vector = v] :
                                        v \in EcoVectors}]
    /\ pool_search = NoSearch
    /\ pool_current_tick = 0 /\ total_updates = 0 /\ pool_job = NoJob /\ integrations = 0
    /\ \E capacity \in 0..MaxVoxels :
         /\ max_voxels = capacity
         /\ \E ids \in SpawnedIds(capacity) : voxels = [i \in ids |-> NewVoxel]
    /\ next_id = InitialSpawns
    /\ current_tick = 0 /\ total_kaif = 0 /\ avg_health = SCALE /\ avg_energy = SCALE
    /\ components = RegisteredComponents
    /\ metrics = KaifMetricsDefault
    /\ update_count = 0 /\ kaif_calls = 0 /\ kaif_call = NoKaifCall
    /\ paused = FALSE
    /\ total_ticks = 0
    /\ eco_pc = "idle"
    /\ eco_dt = 0
    /\ eco_calls = 0
    /\ unpaused_updates = 0

\* the sample of the pool: the first entry of the semantic vector of each of
\* the first 64 records, in index order
NucleotideSample(nucs) ==
    [i \in 1..Min(Len(nucs), nucleotide_sample_size) |-> nucs[i].semantic_vector[1]]

\* the samples of the world: the base emotions of the first 8 agents in the
\* HashMap's iteration order, which is arbitrary
EmotionSamples(vs) ==
    LET k == Min(Cardinality(DOMAIN vs), emotion_sample_size)
    IN {[j \in 1..k |-> vs[order[j]].base_emotion] :
           order \in {o \in [1..k -> DOMAIN vs] :
                         \A a, b \in 1..k : a # b => o[a] # o[b]}}

\* one more call is within the bound
EcoCall ==
    /\ EcoIdle
    /\ eco_calls < MaxEcoCalls
    /\ eco_calls' = eco_calls + 1

\* faulty variant: update runs whether paused or not
NeverPaused(flag) == FALSE

\* if self.paused { return; }
IsPaused(flag) == flag

\* Ecosystem::update(dt) while paused: returns at once
EcoUpdatePaused ==
    /\ EcoCall
    /\ IsPaused(paused)
    /\ UNCHANGED <<paused, total_ticks, eco_pc, eco_dt, unpaused_updates>>
    /\ UNCHANGED <<worldVars, kaifVars, poolVars>>
    /\ UNCHANGED notEco

\* Ecosystem::update(dt) while not paused: total_ticks += 1 and
\* nucleotides.update_all(dt) is entered
EcoUpdateBegin ==
    /\ EcoCall
    /\ ~IsPaused(paused)
    /\ total_ticks < MaxEcoTicks
    /\ total_ticks' = total_ticks + 1
    /\ unpaused_updates' = IF paused THEN unpaused_updates ELSE unpaused_updates + 1
    /\ eco_pc' = "pool"
    /\ \E dt \in EcoDtValues :
         /\ eco_dt' = dt
         /\ UpdateAllCall(dt)
    /\ UNCHANGED paused
    /\ UNCHANGED <<worldVars, kaifVars>>
    /\ UNCHANGED notEco

\* a worker of the Ecosystem's update_all runs nuc.update(dt, tick)
EcoUpdateOne ==
    /\ eco_pc = "pool"
    /\ UpdateOne

\* nucleotides.update_all(dt) returns
EcoPoolReturn ==
    /\ eco_pc = "pool"
    /\ UpdateAllReturn
    /\ eco_pc' = "world"
    /\ UNCHANGED <<paused, total_ticks, eco_dt, eco_calls, unpaused_updates>>
    /\ UNCHANGED <<worldVars, kaifVars>>
    /\ UNCHANGED notEco

\* voxels.update(dt)
EcoWorldUpdate ==
    /\ eco_pc = "world"
    /\ UpdateVoxels(eco_dt)
    /\ eco_pc' = "metric"
    /\ UNCHANGED <<paused, total_ticks, eco_dt, eco_calls, unpaused_updates>>
    /\ UNCHANGED <<kaifVars, poolVars>>
    /\ UNCHANGED notEco

\* the rest of update: the two update_component calls and kaif.update(dt)
EcoMetricUpdate ==
    /\ eco_pc = "metric"
    /\ \E emotions \in EmotionSamples(voxels) :
         LET sampled == IF Len(nucleotides) > 0
                        THEN update_component(components, "nucleotides",
                                              NucleotideSample(nucleotides))
                        ELSE components
             cs == IF emotions # << >>
                   THEN update_component(sampled, "emotions", emotions)
                   ELSE sampled
         IN /\ components' = cs
            /\ update_count' = update_count + 1
            /\ metrics' = KaifMetricsUpdate(metrics, compute_total_kaif(cs, eco_dt * SCALE),
                                            SCALE \div 10)
    /\ eco_pc' = "idle"
    /\ UNCHANGED <<kaif_calls, kaif_call>>
    /\ UNCHANGED <<paused, total_ticks, eco_dt, eco_calls, unpaused_updates>>
    /\ UNCHANGED <<worldVars, poolVars>>
    /\ UNCHANGED notEco

\* Ecosystem::toggle_pause
TogglePause ==
    /\ EcoCall
    /\ paused' = ~paused
    /\ UNCHANGED <<total_ticks, eco_pc, eco_dt, unpaused_updates>>
    /\ UNCHANGED <<worldVars, kaifVars, poolVars>>
    /\ UNCHANGED notEco

EcoStep ==
    \/ EcoUpdatePaused
    \/ EcoUpdateBegin
    \/ EcoUpdateOne
    \/ EcoPoolReturn
    \/ EcoWorldUpdate
    \/ EcoMetricUpdate
    \/ TogglePause

(***************************************************************************)
(* Specifications                                                          *)
(***************************************************************************)

\* the components a specification does not exercise, as constructed
GuardUnused == GuardInit /\ active = {}
WorldUnused == WorldNew(MaxVoxels)
PatternsUnused == PatternNew(MaxPatterns)
KaifUnused == KaifNew
PoolUnused ==
    /\ nucleotides = << >> /\ pool_search = NoSearch
    /\ pool_current_tick = 0 /\ total_updates = 0 /\ pool_job = NoJob /\ integrations = 0
\* the components added to the model after the first six
RhythmUnused == RhythmNew
AgentUnused == agent = NewVoxel /\ agent_calls = MaxAgentOps
EcoUnused ==
    /\ paused = FALSE /\ total_ticks = 0 /\ eco_pc = "idle" /\ eco_dt = 0
    /\ eco_calls = MaxEcoCalls /\ unpaused_updates = 0
RestUnused == RhythmUnused /\ AgentUnused /\ EcoUnused
OthersUnused == EvolutionUnused /\ PoolUnused /\ RestUnused

\* one task awaits each execute() before issuing the next
InitGuard ==
    /\ GuardInit /\ active = {"t1"}
    /\ WorldUnused /\ PatternsUnused /\ KaifUnused /\ OthersUnused
SpecGuard == InitGuard /\ [][GuardStep]_vars

\* two tasks share the guard and call execute() concurrently
\* after PriorFailures failing calls made by one of them
InitGuardConc ==
    /\ AfterFailures(PriorFailures) /\ CallersIdle /\ active = Callers
    /\ WorldUnused /\ PatternsUnused /\ KaifUnused /\ OthersUnused
SpecGuardConc == InitGuardConc /\ [][GuardStep]_vars

\* a world of any capacity from 0 to MaxVoxels
InitWorld ==
    /\ \E capacity \in 0..MaxVoxels : WorldNew(capacity)
    /\ GuardUnused /\ PatternsUnused /\ KaifUnused /\ OthersUnused
SpecWorld == InitWorld /\ [][WorldStep]_vars

\* a pattern database of any capacity from 0 to MaxPatterns
InitPatterns ==
    /\ \E capacity \in 0..MaxPatterns : PatternNew(capacity)
    /\ GuardUnused /\ WorldUnused /\ KaifUnused /\ OthersUnused
SpecPatterns == InitPatterns /\ [][PatternStep]_vars

\* a fresh engine
InitKaif ==
    /\ KaifNew
    /\ GuardUnused /\ WorldUnused /\ PatternsUnused /\ OthersUnused
SpecKaif == InitKaif /\ [][KaifStep]_vars

\* one call of evolve on a population
InitEvolution ==
    /\ EvolutionNew
    /\ GuardUnused /\ WorldUnused /\ PatternsUnused /\ KaifUnused /\ PoolUnused
    /\ RestUnused
SpecEvolution == InitEvolution /\ [][Evolve]_vars

\* one find_similar call on a pool of up to MaxPool records
InitPool ==
    /\ PoolNew
    /\ GuardUnused /\ WorldUnused /\ PatternsUnused /\ KaifUnused
    /\ EvolutionUnused /\ RestUnused
SpecPool == InitPool /\ [][PoolStep]_vars

\* update_all calls on a pool of up to MaxUpdatePool records
InitPoolUpdate ==
    /\ \E n \in 0..MaxUpdatePool :
          nucleotides = [i \in 1..n |-> [NucleotideDefault EXCEPT
                                            !.semantic_vector = <<1, 0>>]]
    /\ pool_search = NoSearch
    /\ pool_current_tick = 0 /\ total_updates = 0 /\ pool_job = NoJob /\ integrations = 0
    /\ GuardUnused /\ WorldUnused /\ PatternsUnused /\ KaifUnused
    /\ EvolutionUnused /\ RestUnused
SpecPoolUpdate == InitPoolUpdate /\ [][UpdateAllStep]_vars

\* one record, from Nucleotide::new, that is given tags and updated
InitTags ==
    /\ nucleotides = <<NucleotideDefault>>
    /\ pool_search = NoSearch
    /\ pool_current_tick = 0 /\ total_updates = 0 /\ pool_job = NoJob /\ integrations = 0
    /\ GuardUnused /\ WorldUnused /\ PatternsUnused /\ KaifUnused
    /\ EvolutionUnused /\ RestUnused
SpecTags == InitTags /\ [][AddEpigeneticTag \/ UpdateAllStep]_vars

\* integrate_experience_all calls on a pool of up to MaxUpdatePool records
\* whose semantic vectors are small, as Nucleotide::random makes them
InitIntegrate ==
    /\ \E n \in 0..MaxUpdatePool :
          nucleotides \in [1..n -> {[NucleotideDefault EXCEPT !.semantic_vector = v] :
                                        v \in SemanticVectors}]
    /\ pool_search = NoSearch
    /\ pool_current_tick = 0 /\ total_updates = 0 /\ pool_job = NoJob /\ integrations = 0
    /\ GuardUnused /\ WorldUnused /\ PatternsUnused /\ KaifUnused
    /\ EvolutionUnused /\ RestUnused
SpecIntegrate == InitIntegrate /\ [][IntegrateExperienceAll]_vars

\* update_rhythm calls on a fresh guard
InitRhythm ==
    /\ RhythmNew
    /\ GuardUnused /\ WorldUnused /\ PatternsUnused /\ KaifUnused
    /\ EvolutionUnused /\ PoolUnused /\ AgentUnused /\ EcoUnused
SpecRhythm == InitRhythm /\ [][UpdateRhythm]_vars

\* calls on one agent, fresh or PriorTicks updates old
InitAgent ==
    /\ AgentNew
    /\ GuardUnused /\ WorldUnused /\ PatternsUnused /\ KaifUnused
    /\ EvolutionUnused /\ PoolUnused /\ RhythmUnused /\ EcoUnused
SpecAgent == InitAgent /\ [][AgentStep]_vars

\* update and toggle_pause calls on an Ecosystem as Ecosystem::new builds it
InitEcosystem ==
    /\ EcoNew
    /\ GuardUnused /\ PatternsUnused /\ EvolutionUnused /\ RhythmUnused /\ AgentUnused
SpecEcosystem == InitEcosystem /\ [][EcoStep]_vars

\* every component from construction, the pool, the world and the engine
\* either on their own or inside an Ecosystem
Init ==
    /\ GuardInit /\ active = Callers
    /\ \E capacity \in 0..MaxPatterns : PatternNew(capacity)
    /\ EvolutionNew
    /\ RhythmNew
    /\ AgentNew
    /\ \/ /\ \E capacity \in 0..MaxVoxels : WorldNew(capacity)
          /\ KaifNew
          /\ PoolNew
          /\ EcoUnused
       \/ EcoNew
Next ==
    \/ GuardStep \/ WorldStep \/ PatternStep \/ KaifStep \/ Evolve \/ PoolStep
    \/ UpdateAllStep \/ AddEpigeneticTag \/ IntegrateExperienceAll
    \/ UpdateRhythm \/ AgentStep \/ EcoStep
Spec == Init /\ [][Next]_vars

(***************************************************************************)
(* Properties of ArchGuard                                                 *)
(***************************************************************************)

\* the single caller of SpecGuard
Solo == "t1"

\* at least reset_timeout has elapsed since the last recorded failure
CooldownElapsed ==
    last_failure_time # None /\ now - last_failure_time >= reset_timeout

\* the positions of a call that has got past the breaker check but has not yet
\* recorded a failure of its own
PastCheck == {"reset_flag", "reset_count", "inc_request", "run", "ok_arm", "err_arm"}

\* C1: with failure_threshold = 10 and one sequential caller on a fresh guard,
\* after 10 calls whose operation failed the circuit is open; an 11th call that
\* returns before reset_timeout has elapsed since the tenth failure returned
\* CircuitOpen without running the operation, and the 11th call gets past the
\* breaker check only once reset_timeout has elapsed.
C1_TripsAtThreshold ==
    /\ (pc[Solo] = "idle" /\ calls = failure_threshold
            /\ leading_failures = failure_threshold)
         => circuit_open
    /\ (pc[Solo] = "idle" /\ calls = failure_threshold + 1
            /\ leading_failures = failure_threshold
            /\ ~CooldownElapsed)
         => (result[Solo] = "CircuitOpen" /\ ran[Solo] = 0 /\ opres[Solo] = "none")
    /\ (calls = failure_threshold + 1 /\ leading_failures = failure_threshold
            /\ pc[Solo] \in PastCheck)
         => CooldownElapsed

\* C1 witness: ten failures, then an eleventh call rejected inside the cooldown
C1_Witness ==
    /\ pc[Solo] = "idle" /\ calls = failure_threshold + 1
    /\ leading_failures = failure_threshold
    /\ ~CooldownElapsed
    /\ circuit_open /\ result[Solo] = "CircuitOpen" /\ ran[Solo] = 0

\* C2 (state part): a call that took the cooldown reset finds the flag cleared
\* and the counter at 0 when it starts the operation, and it runs the operation
\* once and returns its outcome, whatever that is.
C2_AfterReset ==
    /\ (did_reset[Solo] /\ pc[Solo] \in {"inc_request", "run"})
         => (~circuit_open /\ failure_count = 0)
    /\ (did_reset[Solo] /\ pc[Solo] = "idle")
         => (ran[Solo] = 1 /\ opres[Solo] # "none" /\ result[Solo] = opres[Solo])

\* C2 (step part): the step that leaves the open-circuit check goes on to the
\* reset exactly when the cooldown has elapsed; otherwise it returns CircuitOpen
\* and leaves the flag and the counter as they were.
C2_CheckStep ==
    (pc[Solo] = "should_reset" /\ pc'[Solo] # "should_reset")
      => IF CooldownElapsed
         THEN pc'[Solo] = "reset_flag" /\ did_reset'[Solo]
         ELSE /\ pc'[Solo] = "idle"
              /\ result'[Solo] = "CircuitOpen"
              /\ ran'[Solo] = 0
              /\ circuit_open' = circuit_open
              /\ failure_count' = failure_count

\* C2: when the circuit is open and at least reset_timeout has elapsed since the
\* last failure, the next execute clears the flag, zeroes the counter and runs
\* the operation whatever its outcome; earlier than that it is rejected with
\* CircuitOpen and flag and counter are unchanged.
C2_CooldownReset == [](C2_AfterReset) /\ [][C2_CheckStep]_vars

\* C2 witness: a call let through by the cooldown reset ran an operation that failed
C2_Witness ==
    /\ pc[Solo] = "idle" /\ did_reset[Solo]
    /\ ran[Solo] = 1 /\ result[Solo] = "ExecutionFailed"

\* C3: every execute call records a request, rejected calls included: once the
\* caller is back outside execute, the request counter equals the number of
\* execute calls made.
C3_RequestPerCall ==
    pc[Solo] = "idle" => request_counter = calls

\* C3, what the code does: a request is recorded for exactly the calls that got
\* past the breaker check; a call rejected with CircuitOpen records none.
C3_RequestPerAdmittedCall ==
    /\ request_counter <= calls
    /\ (pc[Solo] = "idle" /\ result[Solo] = "CircuitOpen" /\ ran[Solo] = 0)
         => request_counter < calls

\* C4 (state part): a call whose operation succeeded leaves the failure counter at 0
C4_SuccessZeroes ==
    (pc[Solo] = "idle" /\ result[Solo] = "Ok") => failure_count = 0

\* C4 (step part): the flag goes from closed to open only when failure_threshold
\* calls have failed since the last success or cooldown reset
C4_TripStep ==
    (~circuit_open /\ circuit_open') => streak' >= failure_threshold

\* C4: in sequential use a successful call leaves the failure counter at 0, and
\* the circuit goes from Closed to Open only after failure_threshold failing
\* calls with no success and no cooldown reset between them.
C4_OnlyConsecutiveFailuresTrip == [](C4_SuccessZeroes) /\ [][C4_TripStep]_vars

\* C4 witness: at least failure_threshold failures, separated by a success, and
\* the breaker never tripped (no cooldown can have elapsed yet)
C4_Witness ==
    /\ pc[Solo] = "idle" /\ ~circuit_open
    /\ error_counter >= failure_threshold /\ latency_count > 0
    /\ now < reset_timeout

\* C5: each execute call runs the operation at most once; when it ran, execute
\* returns the operation's own result unchanged; the guard's own error is
\* CircuitOpen, and only for a call that did not run the operation.
C5_ResultIsOperations ==
    \A c \in active :
        /\ ran[c] <= 1
        /\ (pc[c] = "idle" /\ result[c] # "none")
             => IF ran[c] = 1
                THEN result[c] = opres[c]
                ELSE result[c] = "CircuitOpen" /\ opres[c] = "none"

\* C5 witness: the operation's own Timeout came back from execute unchanged
C5_Witness ==
    pc[Solo] = "idle" /\ ran[Solo] = 1 /\ result[Solo] = "Timeout"

\* C6: there is no single-attempt half-open budget: with the circuit open and
\* the cooldown elapsed, every caller at the open-circuit check is let through,
\* however many other callers are already past it.
C6_NoHalfOpenBudget ==
    \A c \in active :
        (pc[c] = "should_reset" /\ CooldownElapsed) => ENABLED ShouldResetYes(c)

\* C6 witness: two concurrent calls both took the cooldown reset and are both
\* running their operations at the same time
C6_Witness ==
    \A c \in Callers : pc[c] = "run" /\ did_reset[c]

(***************************************************************************)
(* Properties of VoxelWorld                                                *)
(***************************************************************************)

\* VoxelWorld::count
Count == Cardinality(DOMAIN voxels)

\* the step is a spawn call: it hands out an id
IsSpawn == next_id' = next_id + 1

\* the step is an update call: it advances the tick
IsUpdate == current_tick' = current_tick + 1

\* C7: for a world created with any capacity max_voxels >= 0, the number of
\* agents never exceeds max_voxels.
C7_CountWithinCapacity == Count <= max_voxels

\* C7, what the code does: the bound holds for every capacity of at least 1; a
\* world of capacity 0 holds one agent after the first spawn.
C7_CountWithinPositiveCapacity ==
    /\ max_voxels >= 1 => Count <= max_voxels
    /\ Count <= max_voxels + 1

\* C8 (step): a spawn on a world at capacity removes exactly one resident, one
\* whose health is minimal among the residents; a spawn below capacity removes
\* none.
C8_SpawnStep ==
    IsSpawn =>
        LET gone == DOMAIN voxels \ DOMAIN voxels'
        IN IF Count >= max_voxels
           THEN /\ Cardinality(gone) = 1
                /\ \A g \in gone : \A o \in DOMAIN voxels :
                       voxels[g].health <= voxels[o].health
           ELSE gone = {}

\* C8: spawn at capacity evicts exactly one agent of minimal health before the
\* new agent is inserted; spawn below capacity evicts none.
C8_EvictsOneWeakest == [][C8_SpawnStep]_vars

\* C8, what the code does: the same, for a world that has a resident to evict;
\* the residents that stay are unchanged and the new agent is inserted.
C8_SpawnStepWithResident ==
    IsSpawn =>
        LET gone == DOMAIN voxels \ DOMAIN voxels'
        IN /\ IF Count >= max_voxels /\ Count > 0
              THEN /\ Cardinality(gone) = 1
                   /\ \A g \in gone : \A o \in DOMAIN voxels :
                          voxels[g].health <= voxels[o].health
              ELSE gone = {}
           /\ \A i \in DOMAIN voxels \ gone : voxels'[i] = voxels[i]
           /\ next_id \in DOMAIN voxels' /\ voxels'[next_id] = NewVoxel
C8_EvictsOneWeakestResident == [][C8_SpawnStepWithResident]_vars

\* C9: every agent's health and energy are in [0,1] after any sequence of
\* spawn and update(dt) calls with dt >= 0.
C9_VitalsInUnitInterval ==
    \A i \in DOMAIN voxels :
        /\ 0 <= voxels[i].health /\ voxels[i].health <= SCALE
        /\ 0 <= voxels[i].energy /\ voxels[i].energy <= SCALE

\* C9 witness: an agent updated twice whose energy and health were both driven
\* below 0 and clamped to 0
C9_Witness ==
    \E i \in DOMAIN voxels :
        /\ voxels[i].age_ticks >= 2
        /\ voxels[i].energy = 0 /\ voxels[i].health = 0

\* C10 (state): every resident id has been handed out by spawn
C10_IdsHandedOut == \A i \in DOMAIN voxels : i < next_id

\* C10 (step): an update removes every agent whose health is <= 0 and runs the
\* pipeline exactly on the others; an id once absent stays absent; the only id
\* a step adds is the fresh one, which is larger than every id handed out.
C10_Step ==
    /\ IsUpdate =>
         /\ \A i \in DOMAIN voxels : voxels[i].health <= 0 => i \notin DOMAIN voxels'
         /\ \A i \in DOMAIN voxels' :
                /\ i \in DOMAIN voxels /\ voxels[i].health > 0
                /\ voxels'[i].age_ticks = voxels[i].age_ticks + 1
    /\ \A i \in 0..(next_id - 1) : i \notin DOMAIN voxels => i \notin DOMAIN voxels'
    /\ DOMAIN voxels' \ DOMAIN voxels \subseteq {next_id}
    /\ IsSpawn => next_id \in DOMAIN voxels'
    /\ next_id' >= next_id

\* C10: update first removes every agent with health <= 0 and never runs the
\* pipeline on it; death is terminal: a removed id never appears again, since
\* spawn hands out strictly increasing ids.
C10_DeathIsTerminal == [](C10_IdsHandedOut) /\ [][C10_Step]_vars

\* C10 witness: no spawn has evicted anybody, an agent has died and been removed
\* by update, and the world has a resident with a later id
C10_Witness ==
    /\ next_id <= max_voxels
    /\ \E i \in 0..(next_id - 1) : \E j \in DOMAIN voxels :
           i \notin DOMAIN voxels /\ j > i

PatternCount == Len(patterns)

\* the step is an add call
IsAdd == pattern_call'.op = "add" /\ pattern_next_id' = pattern_next_id + 1

\* the step is a find_similar call
IsFind == pattern_call'.op = "find_similar" /\ total_lookups' = total_lookups + 1

\* the entry an add call stores
Stored == [id |-> pattern_call'.id, use_count |-> 0, features |-> pattern_call'.features]

\* entry i is the earliest-stored of the entries with the minimal use_count
EarliestLeastUsed(i) ==
    /\ \A j \in 1..Len(patterns) : patterns[j].use_count >= patterns[i].use_count
    /\ \A j \in 1..(i - 1) : patterns[j].use_count > patterns[i].use_count

\* C12 (state): stored ids are pairwise distinct and were all handed out
C12_IdsDistinct ==
    /\ \A i, j \in 1..Len(patterns) : i # j => patterns[i].id # patterns[j].id
    /\ \A i \in 1..Len(patterns) : patterns[i].id < pattern_next_id

\* C12 (step): the id of an add is larger than every id handed out before; at
\* capacity exactly one entry, the earliest least-used, makes room for it
C12_AddStep ==
    IsAdd =>
      /\ pattern_call'.id = pattern_next_id
      /\ IF Len(patterns) >= max_patterns
         THEN \E i \in 1..Len(patterns) :
                 /\ EarliestLeastUsed(i)
                 /\ patterns' = Append(RemoveAt(patterns, i), Stored)
         ELSE patterns' = Append(patterns, Stored)

\* C12: add on a cache at capacity removes exactly one entry, the
\* earliest-stored of those with the minimal use_count, then appends the new
\* entry; every add assigns an id greater than all ids assigned before, so
\* stored ids are pairwise distinct.
C12_EvictsEarliestLeastUsed == [](C12_IdsDistinct) /\ [][C12_AddStep]_vars

\* C12 for a cache that holds an entry when add is called
C12_AddStepNonEmpty == Len(patterns) > 0 => C12_AddStep
C12_EvictsEarliestLeastUsedNonEmpty ==
    [](C12_IdsDistinct) /\ [][C12_AddStepNonEmpty]_vars

\* C13: for any max_patterns >= 0, after any sequence of add, generate_random
\* and find_similar calls, count() never exceeds max_patterns.
C13_CountWithinCapacity == PatternCount <= max_patterns

\* C13 for capacities of at least 1
C13_CountWithinPositiveCapacity == max_patterns >= 1 => PatternCount <= max_patterns

\* the step is find_similar(feature_vector(p), 1) right after add(p)
IsFindAfterAdd ==
    /\ IsFind
    /\ pattern_call.op = "add"
    /\ pattern_call'.features = pattern_call.features
    /\ pattern_call'.top_k = 1

\* b is a positive multiple of the non-zero vector a
SameDirection(a, b) ==
    /\ a # <<0, 0>> /\ b # <<0, 0>>
    /\ a[1] * b[2] = a[2] * b[1]
    /\ a[1] * b[1] + a[2] * b[2] > 0

C15_FindSimilarEffect ==
    [][IsFind =>
         LET r == pattern_call'.result
             returned == {r[i].idx : i \in DOMAIN r}
         IN /\ Len(r) = Min(pattern_call'.top_k, PatternCount)
            /\ \A i, j \in DOMAIN r : i < j => r[i].sim >= r[j].sim /\ r[i].idx # r[j].idx
            /\ \A i \in DOMAIN r :
                   /\ r[i].idx \in 1..PatternCount
                   /\ r[i].id = patterns[r[i].idx].id
                   /\ r[i].sim = cosine_similarity(pattern_call'.features,
                                                   patterns[r[i].idx].features)
            /\ total_lookups' = total_lookups + 1
            /\ Len(patterns') = PatternCount
            /\ \A i \in 1..PatternCount :
                   IF i \in returned
                   THEN patterns'[i] = [patterns[i] EXCEPT !.use_count = @ + 1]
                   ELSE patterns'[i] = patterns[i]
            /\ UNCHANGED <<max_patterns, pattern_next_id>>]_vars

\* C15 witness: a lookup with top_k = 1 in a cache of two entries has returned
\* one of them and counted its use, not the other's
C15_Witness ==
    /\ pattern_call.op = "find_similar" /\ pattern_call.top_k = 1
    /\ PatternCount = 2 /\ total_lookups = 1
    /\ Len(pattern_call.result) = 1
    /\ \E i, j \in 1..2 :
           /\ pattern_call.result[1].idx = i
           /\ patterns[i].use_count = 1 /\ patterns[j].use_count = 0

(***************************************************************************)
(* Properties of KaifEngine                                                *)
(***************************************************************************)

\* the step is a call of the named operation
IsKaifCall(op) == kaif_calls' = kaif_calls + 1 /\ kaif_call'.op = op

\* C16: after register_component(name, initial, weight) the engine holds one
\* component called name, with current = previous = initial and the given
\* weight, and the other components as before; the same call made again
\* leaves the engine as it is and adds no component.
C16_RegisterIdempotent ==
    [][IsKaifCall("register_component") =>
         LET name == kaif_call'.name
         IN /\ DOMAIN components' = DOMAIN components \cup {name}
            /\ components'[name].current = components'[name].previous
            /\ components'[name].current \in ComponentVectors
            /\ \A n \in DOMAIN components \ {name} : components'[n] = components[n]
            /\ UNCHANGED <<metrics, update_count>>
            /\ register_component(components', name, components'[name].current,
                                  components'[name].weight) = components'
            /\ \A initial \in ComponentVectors, weight \in WeightValues :
                   LET once == register_component(components, name, initial, weight)
                   IN /\ once[name].current = initial /\ once[name].previous = initial
                      /\ once[name].weight = weight
                      /\ register_component(once, name, initial, weight) = once]_vars

\* C16 witness: a name whose component had been updated is registered again,
\* beside another component
C16_Witness ==
    /\ kaif_call.op = "register_component" /\ kaif_call.replaced
    /\ Cardinality(DOMAIN components) = 2
    /\ components[kaif_call.name].current # <<0, 0, 0, 0>>
    /\ \E n \in DOMAIN components : components[n].current # components[n].previous

\* every registered component holds all-zero current and previous vectors
AllZero ==
    \A n \in DOMAIN components :
        /\ \A i \in DOMAIN components[n].current : components[n].current[i] = 0
        /\ \A i \in DOMAIN components[n].previous : components[n].previous[i] = 0

\* C17: compute_total_kaif(dt) returns 0 whenever dt <= 0, or no component is
\* registered, or every component's current and previous vectors are all-zero;
\* it leaves the engine as it is.
C17_TotalKaifZero ==
    [][IsKaifCall("compute_total_kaif") =>
         /\ (kaif_call'.dt <= 0 \/ DOMAIN components = {} \/ AllZero)
                => kaif_call'.returned = 0
         /\ UNCHANGED <<components, metrics, update_count>>]_vars

\* C17 witness: the engine holds a component whose entropy has changed and one
\* of positive weight, and compute_total_kaif was called with dt < 0
C17_Witness ==
    /\ kaif_call.op = "compute_total_kaif" /\ kaif_call.dt < 0
    /\ \E n \in DOMAIN components :
           /\ components[n].weight > 0
           /\ compute_entropy(components[n].current)
                  # compute_entropy(components[n].previous)

\* KaifEngine::get_state / get_kaif
get_state == metrics.state
get_kaif == metrics.smoothed

\* the band of a smoothed value under the thresholds 0.1 / 0.3 / 0.6 / 0.8
Band(k) ==
    CASE 10 * k < SCALE -> "Dormant"
      [] SCALE <= 10 * k /\ 10 * k < 3 * SCALE -> "Calm"
      [] 3 * SCALE <= 10 * k /\ 10 * k < 6 * SCALE -> "Active"
      [] 6 * SCALE <= 10 * k /\ 10 * k < 8 * SCALE -> "Excited"
      [] 8 * SCALE <= 10 * k -> "Ecstatic"

\* C18: in every reachable state of the engine, from construction onward,
\* get_state() is the band of get_kaif().
C18_StateIsBand == get_state = Band(get_kaif)

\* C18 once update has been called
C18_StateIsBandAfterUpdate == update_count >= 1 => get_state = Band(get_kaif)

(***************************************************************************)
(* Properties of EvolutionEngine                                           *)
(***************************************************************************)

\* the agent at slice position i is one of the n fittest of the population
AmongFittest(i, n) ==
    Cardinality({j \in 1..Len(population) :
                    fitness(population[j]) > fitness(population[i])}) < n

\* C19: for a population of pairwise distinct fitness in any slice order,
\* evolve leaves the number of agents unchanged and leaves unchanged the
\* genomes of the max(len/2, 1) fittest agents; an empty or one-agent
\* population is left as it is.
C19_FittestKeepGenomes ==
    [][(~evolved /\ evolved') =>
         /\ Len(population') = Len(population)
         /\ \A i \in 1..Len(population) :
                /\ population'[i].energy = population[i].energy
                /\ AmongFittest(i, top_count(Len(population)))
                       => population'[i].genome = population[i].genome
         /\ Len(population) <= 1 => population' = population]_vars

\* C19 for the slice positions below top_count instead of the fittest agents
C19_FirstPositionsKeepGenomes ==
    [][(~evolved /\ evolved') =>
         /\ Len(population') = Len(population)
         /\ \A i \in 1..Len(population) :
                /\ population'[i].energy = population[i].energy
                /\ i <= top_count(Len(population))
                       => population'[i].genome = population[i].genome
         /\ Len(population) <= 1 => population' = population]_vars

(***************************************************************************)
(* Properties of NucleotidePool::find_similar                              *)
(***************************************************************************)

\* the similarity of record i to the query of the call
PoolScore(i) == similarity(nucleotides[i], query_nuc(pool_search.query))

\* record i comes before record j in the list: more similar, or as similar and
\* of smaller index
Before(i, j) ==
    PoolScore(i) > PoolScore(j) \/ (PoolScore(i) = PoolScore(j) /\ i < j)

\* C20 (state): the list find_similar has returned holds min(k, n) pairs
\* (index, similarity) of distinct records, most similar first and equally
\* similar ones by increasing index, and no record left out comes before a
\* returned one: the list depends on the records, the query and k only.
C20_ReturnedList ==
    pool_search.op = "returned" =>
        LET r == pool_search.returned
            picked == {r[p].idx : p \in DOMAIN r}
        IN /\ Len(r) = Min(pool_search.top_k, Len(nucleotides))
           /\ \A p \in DOMAIN r :
                  /\ r[p].idx \in DOMAIN nucleotides
                  /\ r[p].score = PoolScore(r[p].idx)
           /\ \A p, q \in DOMAIN r : p < q => Before(r[p].idx, r[q].idx)
           /\ \A i \in DOMAIN nucleotides \ picked : \A j \in picked : Before(j, i)

\* C20: find_similar(query, k) on a fixed record set returns the same list
\* whatever the order in which the per-record similarities are computed:
\* min(k, n) pairs in non-increasing similarity, equal similarities in
\* increasing index; it modifies no record.
C20_Deterministic == [](C20_ReturnedList) /\ [][nucleotides' = nucleotides]_vars

\* C20 witness: two equally similar records of non-zero similarity were
\* completed in the order opposite to their indices and both returned
C20_Witness ==
    /\ pool_search.op = "returned"
    /\ Len(pool_search.returned) >= 2
    /\ pool_search.returned[1].score = pool_search.returned[2].score
    /\ pool_search.returned[1].score > 0
    /\ \E a, b \in DOMAIN pool_search.done :
           /\ a < b
           /\ pool_search.done[a].idx = pool_search.returned[2].idx
           /\ pool_search.done[b].idx = pool_search.returned[1].idx

\* the residents whose health is 0
Exhausted(vs) == {i \in DOMAIN vs : vs[i].health = 0}

\* C29 (step): an update removes exactly the agents that had no health left
\* when it began and updates the others, so that an agent whose health reaches
\* 0 in this update is still resident, and counted in the averages, when the
\* update returns; a spawn on a full world may evict such an agent.
C29_Step ==
    /\ IsUpdate =>
         /\ DOMAIN voxels' = DOMAIN voxels \ Exhausted(voxels)
         /\ \A i \in DOMAIN voxels' : voxels'[i].age_ticks = voxels[i].age_ticks + 1
         /\ Exhausted(voxels') # {} =>
              avg_health' = SumOver(voxels', DOMAIN voxels', "health")
                                \div Cardinality(DOMAIN voxels')
    /\ (IsSpawn /\ Exhausted(voxels) # {} /\ Count >= max_voxels) =>
         /\ DOMAIN voxels \ DOMAIN voxels' \subseteq Exhausted(voxels)
         /\ \A i \in Exhausted(voxels) : ENABLED (Spawn /\ i \notin DOMAIN voxels')

\* C29: an agent whose health reaches 0 in the vitals phase stays in the world
\* after that update returns, counted by count() and in that tick's averages
\* and open to eviction by spawn; it is removed, without being updated again,
\* at the start of the next update.
C29_DeadStayUntilNextUpdate == [][C29_Step]_vars

\* C29 witness: between two ticks the world holds two agents, one with health
\* 0 that the last update drove there and counted in a positive average health
C29_Witness ==
    /\ Count = 2
    /\ Exhausted(voxels) # {} /\ Exhausted(voxels) # DOMAIN voxels
    /\ \A i \in Exhausted(voxels) : voxels[i].age_ticks > 0
    /\ avg_health = SumOver(voxels, DOMAIN voxels, "health") \div 2
    /\ avg_health > 0

(***************************************************************************)
(* Properties of ArchGuard under concurrent callers                        *)
(***************************************************************************)

\* no caller is inside execute()
AllReturned == \A c \in Callers : pc[c] = "idle"

\* C25 (state): failure_count holds the failures counted since the last
\* store(0) of a success or of a cooldown reset; when it has reached
\* failure_threshold and every call has returned the circuit is open, and an
\* open circuit has a last-failure timestamp.
C25_CountedFailuresTrip ==
    /\ (AllReturned /\ failure_count >= failure_threshold) => circuit_open
    /\ circuit_open => last_failure_time # None

\* C25 (step): a failing call adds exactly one to failure_count, whatever the
\* other caller is doing; the flag is raised only by a call that is past its
\* own timestamp write, with the timestamp in place.
C25_Step ==
    /\ \A c \in Callers :
         (pc[c] = "err_arm" /\ pc'[c] # "err_arm") =>
             /\ failure_count' = failure_count + 1
             /\ count'[c] = failure_count'
    /\ (~circuit_open /\ circuit_open') =>
         /\ last_failure_time # None /\ last_failure_time' = last_failure_time
         /\ \E c \in Callers : pc[c] = "err_open" /\ pc'[c] = "idle"

\* C25: under any interleaving of concurrent execute calls no failure increment
\* is lost: failure_threshold failures with no success and no cooldown reset in
\* between leave the circuit open once all have returned, and the open flag is
\* never set before a last-failure timestamp has been recorded.
C25_NoLostFailure == [](C25_CountedFailuresTrip) /\ [][C25_Step]_vars

\* C25 witness: on a closed circuit that had counted PriorFailures failures
\* each of the two callers made one failing call, the second caller counted
\* the threshold-th failure, both have returned and the circuit is open with
\* the timestamp of the clock's first step
C25_Witness ==
    /\ AllReturned /\ circuit_open
    /\ failure_count = failure_threshold
    /\ calls = PriorFailures + 2
    /\ count["t1"] = failure_threshold - 1 /\ count["t2"] = failure_threshold
    /\ last_failure_time = TimeStep /\ now = TimeStep

\* C28 (success part): the step is the success arm of some call; it leaves the
\* open flag as it was and the failure counter at 0
C28_SuccessStep ==
    \A c \in Callers :
        (pc[c] = "ok_arm" /\ pc'[c] = "idle") =>
            /\ circuit_open' = circuit_open
            /\ failure_count' = 0

\* the step takes the breaker from Open to Closed
Closes == circuit_open /\ ~circuit_open'

\* C28: the only transition from Open to Closed is the cooldown reset inside
\* execute and a success never clears the open flag, so that a call admitted
\* while the circuit was closed that succeeds after another caller tripped it
\* leaves the circuit open with failure counter 0; the breaker stays open
\* until reset_timeout has elapsed since the last failure.
C28_StaysOpenUntilCooldown ==
    [][/\ C28_SuccessStep
       /\ Closes => /\ \E c \in Callers : pc[c] = "reset_flag" /\ pc'[c] = "reset_count"
                    /\ CooldownElapsed]_vars

\* C28, what the code does: the flag is cleared only by reset_circuit() of a
\* call whose should_reset() check found the cooldown elapsed, and a success
\* never clears it; the cooldown is measured from the timestamp that check
\* read, not from a failure recorded between the check and the reset.
C28_OnlyResetCloses ==
    [][/\ C28_SuccessStep
       /\ Closes => \E c \in Callers :
                        pc[c] = "reset_flag" /\ pc'[c] = "reset_count" /\ did_reset[c]]_vars

\* a call admitted while the circuit was closed succeeded after the other
\* caller had tripped the breaker: the circuit is open with failure counter 0
C28_SuccessLeavesOpen ==
    /\ AllReturned /\ circuit_open /\ failure_count = 0
    /\ \E c \in Callers : result[c] = "Ok" /\ ~did_reset[c]

(***************************************************************************)
(* Properties of Nucleotide and of NucleotidePool::update_all              *)
(***************************************************************************)

\* the live tags of a record: the first epigenetic_count slots
LiveTags(n) == SubSeq(n.epigenetic_tags, 1, n.epigenetic_count)

RECURSIVE Survivors(_, _)
\* every tag of the list decayed once, those below 0.01 dropped, in order
Survivors(tags, dt) ==
    IF tags = << >> THEN << >>
    ELSE LET first == Decayed(Head(tags), dt)
         IN IF Expired(first) THEN Survivors(Tail(tags), dt)
            ELSE <<first>> \o Survivors(Tail(tags), dt)

\* the live tags of n are the list tags, or that list and one tag after it
\* that update_epigenetic_tags added at random
IsOrExtends(n, tags) ==
    \/ LiveTags(n) = tags
    \/ /\ n.epigenetic_count = Len(tags) + 1
       /\ SubSeq(LiveTags(n), 1, Len(tags)) = tags
       /\ n.epigenetic_tags[n.epigenetic_count].weight \in RandomStrengths

\* C24: one Nucleotide update decays every live tag exactly once, removes
\* exactly the tags whose decayed weight is below 0.01 and compacts the rest:
\* the live tags afterwards are the surviving tags in their original order
\* (and at most one tag added at random after them), no live tag of weight
\* >= 0.01 is lost, and epigenetic_count stays within 0..4.
C24_ExpiryKeepsSurvivors ==
    [][\A i \in DOMAIN nucleotides :
          /\ nucleotides'[i].epigenetic_count \in 0..4
          /\ (pool_job.op = "updating" /\ i \in pool_job.pending
                  /\ i \notin pool_job'.pending) =>
                IsOrExtends(nucleotides'[i],
                            Survivors(LiveTags(nucleotides[i]), pool_job.dt))]_vars

\* C24, the part the code keeps: epigenetic_count stays within 0..4
C24_CountInRange ==
    \A i \in DOMAIN nucleotides : nucleotides[i].epigenetic_count \in 0..4

\* the records a worker step of update_all has just updated
JustUpdated ==
    {i \in DOMAIN nucleotides : nucleotides'[i] # nucleotides[i]}

\* C21 (state): no record is updated twice in one call; when update_all has
\* returned every record has been updated once, all carry the tick the call
\* read, and current_tick is one more than that
C21_AtReturn ==
    /\ \A p, q \in DOMAIN pool_job.updated :
           pool_job.updated[p] = pool_job.updated[q] => p = q
    /\ pool_job.op = "returned" =>
         /\ {pool_job.updated[p] : p \in DOMAIN pool_job.updated} = DOMAIN nucleotides
         /\ \A i \in DOMAIN nucleotides : nucleotides[i].last_access_tick = pool_job.tick
         /\ pool_current_tick = pool_job.tick + 1
         /\ total_updates = pool_current_tick * Len(nucleotides)

\* C21 (step): the number of records never changes; a worker changes one
\* record, one still pending, into an update of that record alone; the tick
\* advances only when a call starts, by 1
C21_Step ==
    /\ Len(nucleotides') = Len(nucleotides)
    /\ JustUpdated # {} =>
         \E i \in pool_job.pending :
             /\ JustUpdated = {i}
             /\ \E draw \in TagDraws(pool_job.dt) :
                    nucleotides'[i] = nucleotide_update(nucleotides[i], pool_job.dt,
                                                        pool_job.tick, draw)
    /\ pool_current_tick' # pool_current_tick =>
         /\ pool_current_tick' = pool_current_tick + 1
         /\ pool_job.op # "updating" /\ pool_job'.op = "updating"

\* C21: update_all(dt) is a synchronous barrier: when it returns every record
\* has been updated exactly once for that call, in no required order and
\* without any record reading another, all records carry the same
\* last_access_tick, current_tick has advanced by exactly 1 and the number of
\* records is unchanged.
C21_UpdateAllBarrier == [](C21_AtReturn) /\ [][C21_Step]_vars

\* C21 witness: the second update_all call on a pool of two records has
\* returned, its workers having finished the second record before the first,
\* and the two records, updated with different random draws, differ in tags
C21_Witness ==
    /\ pool_job.op = "returned" /\ pool_job.tick = 1
    /\ Len(nucleotides) = 2 /\ pool_job.updated = <<2, 1>>
    /\ nucleotides[1].semantic_vector = nucleotides[2].semantic_vector
    /\ nucleotides[1].epigenetic_count # nucleotides[2].epigenetic_count

\* every entry of the vector is a finite number
AllFinite(v) == \A i \in DOMAIN v : v[i] # NaN /\ ~IsInf(v[i])

\* C23: for every record, after any sequence of integrate_experience_all
\* calls, the L2 norm of the semantic vector is at most 10 (plus rounding),
\* whatever the external vector and dt.
C23_NormAtMostTen ==
    \A i \in DOMAIN nucleotides :
        LET norm == Norm(nucleotides[i].semantic_vector)
        IN norm # NaN /\ norm <= 10 * VUNIT + RoundingSlack

\* C23, what the code keeps: a semantic vector whose entries are all finite
\* has a norm of at most 10 (plus rounding)
C23_FiniteNormAtMostTen ==
    \A i \in DOMAIN nucleotides :
        AllFinite(nucleotides[i].semantic_vector) =>
            Norm(nucleotides[i].semantic_vector) <= 10 * VUNIT + RoundingSlack

\* a vector was renormalised: a record's norm is 10, to rounding
C23_Renormalised ==
    \E i \in DOMAIN nucleotides :
        /\ AllFinite(nucleotides[i].semantic_vector)
        /\ Norm(nucleotides[i].semantic_vector) >= 10 * VUNIT - RoundingSlack

(***************************************************************************)
(* Properties of RhythmDetector                                            *)
(***************************************************************************)

\* C26 (step): the first update_rhythm call leaves the phase alone; a later
\* call with timestamp t moves the phase to (phase + (t - previous) / period)
\* modulo 1
C26_Step ==
    rhythm_calls' = rhythm_calls + 1 =>
        IF rhythm_calls = 0
        THEN phase' = phase
        ELSE phase' = (phase + (last_update' - last_update) * PhasePerSecond) % PhaseUnits

\* C26: only the first update_rhythm call seeds the clock without changing the
\* phase; every later call, whatever the timestamps, advances the phase by
\* (timestamp - previous) / period modulo 1; get_rhythm_phase() is always in
\* [0, 1).
C26_PhaseAdvances == [](0 <= phase /\ phase < PhaseUnits) /\ [][C26_Step]_vars

\* C26, one part alone: get_rhythm_phase() is always in [0, 1)
C26_PhaseInUnitInterval == 0 <= phase /\ phase < PhaseUnits

\* C26, what the code keeps: the phase is always in (-1, 1); a call made while
\* last_update is not above 0 only stores the timestamp
C26_PhaseWithinOne ==
    [](0 - PhaseUnits < phase /\ phase < PhaseUnits)
        /\ [][(rhythm_calls' = rhythm_calls + 1 /\ last_update <= 0) => phase' = phase]_vars

(***************************************************************************)
(* Properties of Voxel::update and VoxelMemory::store                      *)
(***************************************************************************)

\* the step is an update of the agent
IsAgentUpdate == agent'.age_ticks = agent.age_ticks + 1

\* C27 (step): an update stores an episode exactly when the kaif computed in
\* that update is above 0.5; a store adds 1 to write_count, writes the
\* long-term slice write_count mod 4 and no other, and appends the episode,
\* made of this update's emotions, after dropping the oldest from a full list
C27_Step ==
    IsAgentUpdate =>
        LET m == agent.memory
            after == agent'.memory
            slice == (m.write_count % 4) + 1
        IN IF agent'.kaif > SCALE \div 2
           THEN /\ after.write_count = m.write_count + 1
                /\ after.written = [m.written EXCEPT ![slice] = @ + 1]
                /\ \A k \in (1..4) \ {slice} : after.long_term[k] = m.long_term[k]
                /\ after.episodes =
                      Append(IF Len(m.episodes) = 16 THEN Tail(m.episodes) ELSE m.episodes,
                             [emotion |-> agent'.base_emotion, number |-> m.write_count])
           ELSE after = m

\* C27: Voxel::update runs emotion before memory before vitals: an episode is
\* stored in a tick exactly when that tick's kaif is above 0.5; each store
\* increments write_count by 1 and targets the long-term slice write_count
\* mod 4; the episode list never holds more than 16 entries, the oldest being
\* dropped first.
C27_MemoryPhase ==
    [](Len(agent.memory.episodes) <= 16) /\ [][C27_Step]_vars

\* C27 witness: after 18 updates, one of which stored nothing, the agent has
\* stored 17 episodes and holds the last 16, the first one dropped
C27_Witness ==
    /\ agent.age_ticks = 18
    /\ agent.memory.write_count = 17
    /\ Len(agent.memory.episodes) = 16
    /\ agent.memory.episodes[1].number = 1
    /\ agent.memory.written = <<5, 4, 4, 4>>

(***************************************************************************)
(* Ecosystem::update and toggle_pause                                      *)
(***************************************************************************)

\* the tick number the update in progress handed to the pool
EcoTick == total_ticks - 1

\* every record of the pool was updated in the tick in progress
PoolOfThisTick ==
    /\ pool_job.op = "returned"
    /\ pool_job.pending = {}
    /\ pool_job.tick = EcoTick
    /\ pool_current_tick = total_ticks
    /\ \A i \in DOMAIN nucleotides : nucleotides[i].last_access_tick = EcoTick

\* every agent of the world was updated in the tick in progress
WorldOfThisTick ==
    /\ current_tick = total_ticks
    /\ \A i \in DOMAIN voxels : voxels[i].age_ticks = total_ticks

\* C22 (state): inside an update the phases have run in order: during the
\* pool phase the world and the engine are still those of the previous tick;
\* during the world phase the pool is entirely of this tick and the world and
\* the engine of the previous one; during the metric phase pool and world are
\* both of this tick; between calls all three are of the same tick
C22_PhasesInOrder ==
    /\ eco_pc = "pool" =>
          /\ pool_job.op = "updating" /\ pool_job.tick = EcoTick
          /\ current_tick = EcoTick /\ update_count = EcoTick
          /\ \A i \in DOMAIN voxels : voxels[i].age_ticks = EcoTick
    /\ eco_pc = "world" =>
          /\ PoolOfThisTick
          /\ current_tick = EcoTick /\ update_count = EcoTick
          /\ \A i \in DOMAIN voxels : voxels[i].age_ticks = EcoTick
    /\ eco_pc = "metric" =>
          /\ PoolOfThisTick /\ WorldOfThisTick
          /\ update_count = EcoTick
    /\ eco_pc = "idle" =>
          /\ pool_job.op # "updating"
          /\ pool_current_tick = total_ticks /\ current_tick = total_ticks
          /\ update_count = total_ticks

\* C22 (step): a tick starts only when no update is in progress; the workers
\* of the pool phase leave world and engine alone; the metric step stores as
\* the current state of "nucleotides" and "emotions" the samples of the pool
\* and the world it finds, which are those of this tick, and makes the
\* former current states the previous ones
C22_Step ==
    /\ total_ticks' # total_ticks => eco_pc = "idle" /\ eco_pc' = "pool"
    /\ eco_pc = "pool" => UNCHANGED <<worldVars, kaifVars>>
    /\ eco_pc = "world" => UNCHANGED <<kaifVars, poolVars>>
    /\ update_count' # update_count =>
          /\ eco_pc = "metric" /\ eco_pc' = "idle"
          /\ PoolOfThisTick /\ WorldOfThisTick
          /\ UNCHANGED <<worldVars, poolVars>>
          /\ Len(nucleotides) > 0 =>
                /\ components'["nucleotides"].current =
                      [i \in DOMAIN nucleotides |-> nucleotides[i].semantic_vector[1]]
                /\ components'["nucleotides"].previous = components["nucleotides"].current
          /\ DOMAIN voxels # {} =>
                /\ Len(components'["emotions"].current) = Cardinality(DOMAIN voxels)
                /\ \A i \in DOMAIN voxels :
                      \E j \in DOMAIN components'["emotions"].current :
                         components'["emotions"].current[j] = voxels[i].base_emotion
                /\ components'["emotions"].previous = components["emotions"].current

\* C22: in each unpaused Ecosystem::update the pool update completes before
\* the world update starts and the world update completes before the metric
\* engine's component updates and kaif.update run; ticks never overlap, so
\* the metric step samples pool and world state of the same tick.
C22_PoolWorldMetric == [](C22_PhasesInOrder) /\ [][C22_Step]_vars

\* C22 witness: the second tick is in its metric phase on a non-empty pool
\* and a non-empty world, the engine still holding the samples of the first
C22_Witness ==
    /\ eco_pc = "metric"
    /\ total_ticks = 2
    /\ update_count = 1
    /\ Len(nucleotides) > 0
    /\ \A i \in DOMAIN nucleotides : nucleotides[i].last_access_tick = 1
    /\ Cardinality(DOMAIN voxels) = 2
    /\ \A i \in DOMAIN voxels : voxels[i].age_ticks = 2
    /\ \E i \in DOMAIN voxels :
          components["emotions"].current[1] # voxels[i].base_emotion

\* the step is an update call, made while the flag was as it is
IsEcoUpdateCall == eco_calls' = eco_calls + 1 /\ paused' = paused

\* C30 (state): between calls the four tick counters equal the number of
\* update calls made while not paused
C30_CountersAgree ==
    eco_pc = "idle" =>
        /\ total_ticks = unpaused_updates
        /\ pool_current_tick = unpaused_updates
        /\ current_tick = unpaused_updates
        /\ update_count = unpaused_updates

\* C30 (step): an update call made while paused changes neither the tick
\* counter nor pool, world or engine and starts no phase; a toggle_pause call
\* inverts the flag and changes nothing else
C30_Step ==
    /\ IsEcoUpdateCall /\ paused =>
          /\ UNCHANGED <<total_ticks, worldVars, kaifVars, poolVars>>
          /\ eco_pc' = "idle"
    /\ paused' # paused =>
          /\ paused' = ~paused
          /\ UNCHANGED <<total_ticks, eco_pc, worldVars, kaifVars, poolVars>>

\* C30: while the Ecosystem is paused, update(dt) changes nothing, and
\* toggle_pause inverts the paused flag, so that two calls restore it;
\* after any sequence of update and toggle_pause calls total_ticks,
\* nucleotides.current_tick, voxels.current_tick and kaif.update_count all
\* equal the number of update calls made while not paused.
C30_PausedUpdateIsNoOp == [](C30_CountersAgree) /\ [][C30_Step]_vars

\* C30 witness: four calls were made, two toggle_pause calls that restored
\* the flag and two updates of which one found the Ecosystem paused
C30_Witness ==
    /\ eco_pc = "idle"
    /\ eco_calls = 4
    /\ ~paused
    /\ unpaused_updates = 1
    /\ total_ticks = 1
    /\ update_count = 1

====
